---- MODULE Spec2Model ----
(***************************************************************************)
(* A model of col, a declarative command-line argument resolver            *)
(* (include/col/command.h): a tree of Cmd / SubCmd nodes holding Arg       *)
(* options is walked over a token list and yields a value or a ParseError. *)
(***************************************************************************)
EXTENDS Integers, Sequences, FiniteSets, TLC

VARIABLES
    cmd,        \* index of the command tree being parsed (immutable per run)
    argv,       \* the token list handed to Cmd::parse
    iter,       \* the shared cursor `I& iter` (1-based; sentinel = Len(argv)+1)
    stack,      \* the activation records of the nested parse calls
    result,     \* what the outermost parse returned (or that it still runs)
    events,     \* history: what each step did (parser calls, slot writes, ...)
    calls,      \* the other parse calls on the same tree: their own locals
    x,          \* an object operated on outside a parse: a col::optional
                \* (include/col/optional.h) or an OptionConfig being built
    y           \* a second col::optional object of the same type

vars == <<cmd, argv, iter, stack, result, events, calls, x, y>>

(***************************************************************************)
(* Bounds of the model.                                                    *)
(***************************************************************************)
MaxLen == 4

\* Number of successive parse calls on one token list.
MaxCalls == 2

\* Longest token list of each of two concurrent parse calls.
MaxLenConcurrent == 2

(***************************************************************************)
(* std::optional and std::expected.                                        *)
(***************************************************************************)
nullopt == [has |-> FALSE]
some(v) == [has |-> TRUE, val |-> v]

Ok(v) == [ok |-> TRUE, val |-> v]
Unexpected(e) == [ok |-> FALSE, error |-> e]

(***************************************************************************)
(* col::ParseError and its alternatives.                                   *)
(***************************************************************************)
UnknownError == [type |-> "UnknownError"]
InternalLogicError(name, kind) == [type |-> "InternalLogicError", name |-> name, kind |-> kind]
ShowHelp == [type |-> "ShowHelp"]
UnknownOption(arg) == [type |-> "UnknownOption", arg |-> arg]
DuplicateArg(name) == [type |-> "DuplicateArg", name |-> name]
NoValueGivenForOption(name) == [type |-> "NoValueGivenForOption", name |-> name]
InvalidNumber(name, arg, err) == [type |-> "InvalidNumber", name |-> name, arg |-> arg, err |-> err]
InvalidConfiguration(name, kind) == [type |-> "InvalidConfiguration", name |-> name, kind |-> kind]
ConverterConvertionError(name, arg) == [type |-> "ConverterConvertionError", name |-> name, arg |-> arg]
DefaultGenerationError(name) == [type |-> "DefaultGenerationError", name |-> name]
RequiredOption(name) == [type |-> "RequiredOption", name |-> name]

(***************************************************************************)
(* col::ControlFlow<B, C>: Break carries a value, Continue carries none.   *)
(***************************************************************************)
Break(b) == [brk |-> TRUE, val |-> b]
Continue == [brk |-> FALSE]
is_continue(cf) == ~cf.brk
is_break(cf) == ~is_continue(cf)

(***************************************************************************)
(* col::Arg<T, D, P>.  T is the value type, D the default (blank, a value  *)
(* or a zero-argument generator), P the parser (blank or a function of the *)
(* raw token).  `required` is the attribute set by Arg::set_required.      *)
(***************************************************************************)
blank == [kind |-> "blank"]

Arg(name) == [m_name |-> name, T |-> "blank", m_default |-> blank, m_parser |-> blank, required |-> FALSE]

set_value_type(arg, ValueT) == [arg EXCEPT !.T = ValueT]

set_default(arg, de) == [arg EXCEPT !.m_default = de, !.T = IF arg.T = "blank" THEN de.T ELSE arg.T]

set_parser(arg, p) == [arg EXCEPT !.m_parser = p, !.T = IF arg.T = "blank" THEN p.T ELSE arg.T]

set_required(arg, b) == [arg EXCEPT !.required = b]

\* A default given by value, and defaults given as generators returning
\* T, std::optional<T> or std::expected<T, E>, E not convertible to
\* ParseError; `out` is what the generator returns.
DefaultValue(ValueT, v) == [kind |-> "value", T |-> ValueT, val |-> v]
DefaultFn(ValueT, ret, out) == [kind |-> "fn", T |-> ValueT, ret |-> ret, out |-> out]

\* Parsers: `fn` names what the function does with the raw token.
Parser(ValueT, ret, fn) == [kind |-> "fn", T |-> ValueT, ret |-> ret, fn |-> fn]

(***************************************************************************)
(* std::string_view contents: the characters of each token the model uses. *)
(***************************************************************************)
chars(str) ==
    CASE str = "" -> <<>>
      [] str = "1" -> <<"1">>
      [] str = "5" -> <<"5">>
      [] str = "5x" -> <<"5", "x">>
      [] str = "0x1f" -> <<"0", "x", "1", "f">>
      [] str = "-7" -> <<"-", "7">>
      [] str = "a" -> <<"a">>
      [] str = "b" -> <<"b">>
      [] str = "bad" -> <<"b", "a", "d">>
      [] str = "sub" -> <<"s", "u", "b">>
      [] str = "subsub" -> <<"s", "u", "b", "s", "u", "b">>
      [] str = "--help" -> <<"-", "-", "h", "e", "l", "p">>
      [] str = "--flag" -> <<"-", "-", "f", "l", "a", "g">>
      [] str = "--count" -> <<"-", "-", "c", "o", "u", "n", "t">>
      [] str = "--str" -> <<"-", "-", "s", "t", "r">>
      [] str = "--num" -> <<"-", "-", "n", "u", "m">>
      [] str = "--bar" -> <<"-", "-", "b", "a", "r">>
      [] str = "--x" -> <<"-", "-", "x">>
      [] str = "--opt" -> <<"-", "-", "o", "p", "t">>
      [] str = "--required" -> <<"-", "-", "r", "e", "q">>
      [] str = "--plain" -> <<"-", "-", "p", "l", "a", "i", "n">>
      [] str = "--some" -> <<"-", "-", "s", "o", "m", "e">>
      [] str = "--exp" -> <<"-", "-", "e", "x", "p">>
      [] str = "--none" -> <<"-", "-", "n", "o", "n", "e">>
      [] str = "0" -> <<"0">>
      [] str = "127" -> <<"1", "2", "7">>
      [] str = "128" -> <<"1", "2", "8">>
      [] str = "-129" -> <<"-", "1", "2", "9">>
      [] str = "0x-10" -> <<"0", "x", "-", "1", "0">>
      [] str = "-0x10" -> <<"-", "0", "x", "1", "0">>
      [] str = "--level" -> <<"-", "-", "l", "e", "v", "e", "l">>
      [] str = "ok" -> <<"o", "k">>
      [] str = "--verbose" -> <<"-", "-", "v", "e", "r", "b", "o", "s", "e">>
      [] str = "--res" -> <<"-", "-", "r", "e", "s">>
      [] OTHER -> <<"?">>

(***************************************************************************)
(* std::from_chars for integers and col::integral_from_string.             *)
(***************************************************************************)
Digits == <<"0", "1", "2", "3", "4", "5", "6", "7", "8", "9", "a", "b", "c", "d", "e", "f">>

\* The value of a digit character, or -1 when it is none.
DigitValue(c) ==
    IF \E i \in DOMAIN Digits : Digits[i] = c
    THEN (CHOOSE i \in DOMAIN Digits : Digits[i] = c) - 1
    ELSE -1

IsDigit(c, base) == DigitValue(c) >= 0 /\ DigitValue(c) < base

\* Range of the integral type T.
IntegralMin(ValueT) == IF ValueT = "int8" THEN -128 ELSE (-2147483647) - 1
IntegralMax(ValueT) == IF ValueT = "int8" THEN 127 ELSE 2147483647

RECURSIVE DigitRun(_, _, _)
\* Number of consecutive base-`base` digits of s from position i.
DigitRun(s, i, base) ==
    IF i > Len(s) \/ ~IsDigit(s[i], base) THEN 0 ELSE 1 + DigitRun(s, i + 1, base)

RECURSIVE Accumulate(_, _, _, _, _, _)
\* Accumulates the digits s[i..last] into acc (negated when neg), the way
\* from_chars does; range |-> FALSE once the value leaves [lo, hi] of T.
Accumulate(s, i, last, base, acc, ValueT) ==
    IF i > last THEN [range |-> TRUE, value |-> acc]
    ELSE LET d == DigitValue(s[i])
             lo == IntegralMin(ValueT)
             hi == IntegralMax(ValueT)
             neg == s[1] = "-"
             fits == IF neg
                     THEN acc >= -((-(lo + d)) \div base)
                     ELSE acc <= (hi - d) \div base
         IN  IF ~fits THEN [range |-> FALSE, value |-> 0]
             ELSE Accumulate(s, i + 1, last, base,
                             IF neg THEN acc * base - d ELSE acc * base + d, ValueT)

\* std::from_chars(first, last, value, base) for a signed integral T:
\* an optional minus sign, then the longest run of digits.
from_chars(s, ValueT, base) ==
    LET neg == Len(s) > 0 /\ s[1] = "-" /\ IntegralMin(ValueT) < 0
        start == IF neg THEN 2 ELSE 1
        n == DigitRun(s, start, base)
        acc == Accumulate(s, start, start + n - 1, base, 0, ValueT)
    IN  IF n = 0 THEN [ptr |-> 1, ec |-> "invalid_argument", value |-> 0]
        ELSE IF ~acc.range THEN [ptr |-> start + n, ec |-> "result_out_of_range", value |-> 0]
        ELSE [ptr |-> start + n, ec |-> "ok", value |-> acc.value]

starts_with_0x(str) == Len(str) >= 2 /\ str[1] = "0" /\ str[2] = "x"

integral_from_string(str, ValueT) ==
    LET base == IF starts_with_0x(str) THEN 16 ELSE 10
        s == IF starts_with_0x(str) THEN SubSeq(str, 3, Len(str)) ELSE str
        res == from_chars(s, ValueT, base)
    IN  IF res.ptr = Len(s) + 1 /\ res.ec = "ok" THEN Ok(res.value) ELSE Unexpected(res)

number_from_string(str, ValueT) == integral_from_string(str, ValueT)

(***************************************************************************)
(* The parsers and default generators the command trees are built with.    *)
(***************************************************************************)
\* std::invoke(m_parser, a.data()).
InvokeParser(p, a) ==
    CASE p.fn = "identity" -> a
      [] p.fn = "optional_reject_bad" -> IF a = "bad" THEN nullopt ELSE some(a)
      [] p.fn = "expected_invalid_number" ->
            IF a = "bad" THEN Unexpected(InvalidNumber("int", a, "invalid_argument")) ELSE Ok(a)
      [] p.fn = "expected_unknown_error" ->
            IF a = "bad" THEN Unexpected(UnknownError) ELSE Ok(a)

\* std::invoke(config.get_default()).
InvokeDefault(de) == de.out

(***************************************************************************)
(* Arg<T, D, P>::parse(iter, s).                                           *)
(***************************************************************************)
\* A flag that ignores its declared default.
ArgParseBool_mut(arg) == TRUE

\* T = bool: the flag's value, the negation of a bool default.
ArgParseBool(arg) ==
    IF arg.m_default.kind = "value" /\ arg.m_default.T = "bool"
    THEN ~arg.m_default.val
    ELSE TRUE

\* A missing value reported as an unknown option.
ArgParseNoValue_mut(arg) == Unexpected(UnknownOption(arg.m_name))

\* iter == s: no token is left for the option's value.
ArgParseNoValue(arg) == Unexpected(NoValueGivenForOption(arg.m_name))

\* An absent parser result reported without the raw token.
ArgParseOptional_mut(arg, a, res) ==
    IF res.has THEN Ok(res.val) ELSE Unexpected(ConverterConvertionError(arg.m_name, arg.m_name))

\* The parser returned std::optional<T>.
ArgParseOptional(arg, a, res) ==
    IF res.has THEN Ok(res.val) ELSE Unexpected(ConverterConvertionError(arg.m_name, a))

\* A parser's error rewrapped instead of passed through.
ArgParseExpected_mut(arg, a, res) ==
    IF res.ok THEN Ok(res.val) ELSE Unexpected(ConverterConvertionError(arg.m_name, a))

\* The parser returned std::expected<T, E>.
ArgParseExpected(arg, a, res) ==
    IF res.ok THEN Ok(res.val) ELSE Unexpected(res.error)

\* A failed number conversion reported as a converter error.
ArgParseNumber_mut(arg, a) ==
    LET res == number_from_string(chars(a), arg.T)
    IN  IF res.ok THEN Ok(res.val) ELSE Unexpected(ConverterConvertionError(arg.m_name, a))

\* T is integral and there is no parser: col::number_from_string<T>.
ArgParseNumber(arg, a) ==
    LET res == number_from_string(chars(a), arg.T)
    IN  IF res.ok THEN Ok(res.val) ELSE Unexpected(InvalidNumber(arg.m_name, a, res.error.ec))

\* The conversion of the value token a.
ArgParseValue(arg, a) ==
    IF arg.m_parser.kind = "fn"
    THEN LET res == InvokeParser(arg.m_parser, a)
         IN  CASE arg.m_parser.ret = "plain" -> Ok(res)
               [] arg.m_parser.ret = "optional" -> ArgParseOptional(arg, a, res)
               [] arg.m_parser.ret = "expected" -> ArgParseExpected(arg, a, res)
    ELSE IF arg.T = "string" THEN Ok(a)
    ELSE IF arg.T = "optstring" THEN Ok(some(a))
    ELSE ArgParseNumber(arg, a)

\* An Arg::parse that reads the value token without advancing the cursor.
ArgParse_noadvance(arg, args, it) ==
    IF arg.T = "bool"
    THEN [res |-> Ok(ArgParseBool(arg)), iter |-> it, calls |-> <<>>]
    ELSE IF it = Len(args) + 1
    THEN [res |-> ArgParseNoValue(arg), iter |-> it, calls |-> <<>>]
    ELSE [res |-> ArgParseValue(arg, args[it]), iter |-> it, calls |-> <<>>]

\* An Arg::parse that takes the token `--help` for a name and not for a
\* value: the option is left without a value and the token is not consumed.
ArgParse_names(arg, args, it) ==
    IF arg.T = "bool"
    THEN [res |-> Ok(ArgParseBool(arg)), iter |-> it, calls |-> <<>>]
    ELSE IF it = Len(args) + 1 \/ args[it] = "--help"
    THEN [res |-> ArgParseNoValue(arg), iter |-> it, calls |-> <<>>]
    ELSE [res |-> ArgParseValue(arg, args[it]),
          iter |-> it + 1,
          calls |-> IF arg.m_parser.kind = "fn"
                    THEN <<[ev |-> "parser", name |-> arg.m_name, arg |-> args[it]]>>
                    ELSE <<>>]

\* Arg::parse with the cursor at `it`: the result, the cursor afterwards and
\* the parser invocations made.
ArgParse(arg, args, it) ==
    IF arg.T = "bool"
    THEN [res |-> Ok(ArgParseBool(arg)), iter |-> it, calls |-> <<>>]
    ELSE IF it = Len(args) + 1
    THEN [res |-> ArgParseNoValue(arg), iter |-> it, calls |-> <<>>]
    ELSE [res |-> ArgParseValue(arg, args[it]),
          iter |-> it + 1,
          calls |-> IF arg.m_parser.kind = "fn"
                    THEN <<[ev |-> "parser", name |-> arg.m_name, arg |-> args[it]]>>
                    ELSE <<>>]

(***************************************************************************)
(* col::Cmd<...> and col::SubCmd<M, ...>: a name, the child subcommands    *)
(* m_subs and the options m_args, both in declaration order.               *)
(***************************************************************************)
Cmd(name) == [m_name |-> name, m_subs |-> <<>>, m_args |-> <<>>, root |-> TRUE]

SubCmd(name) == [m_name |-> name, m_subs |-> <<>>, m_args |-> <<>>, root |-> FALSE]

\* add(Arg&&): an Arg whose T is still blank becomes a bool flag.
add(node, arg) ==
    [node EXCEPT !.m_args = Append(@, IF arg.T = "blank" THEN set_value_type(arg, "bool") ELSE arg)]

\* add(SubCmd&&).
add_subcmd(node, subcmd) == [node EXCEPT !.m_subs = Append(@, subcmd)]

(***************************************************************************)
(* The command trees parsed by the model.                                  *)
(***************************************************************************)
\* Options `--flag` (bool) and `--count` (int, default 10, built-in number
\* conversion) on a command without subcommands.
CmdFlagCount ==
    add(add(Cmd("cmd"),
        Arg("--flag")),
        set_default(Arg("--count"), DefaultValue("int", 10)))

\* A command without subcommands whose options use the three kinds of
\* parser result, a flag with default true and a required flag.
CmdParsers ==
    add(add(add(add(Cmd("cmd"),
        set_parser(Arg("--opt"), Parser("string", "optional", "optional_reject_bad"))),
        set_parser(Arg("--num"), Parser("string", "expected", "expected_invalid_number"))),
        set_default(Arg("--bar"), DefaultValue("bool", TRUE))),
        set_required(Arg("--required"), TRUE))

\* cmd [--str S] [sub [--x X] [subsub [--bar] [--num N]]]
CmdNested ==
    add_subcmd(add(Cmd("cmd"),
        set_value_type(Arg("--str"), "string")),
        add_subcmd(add(SubCmd("sub"),
            set_required(set_parser(Arg("--x"), Parser("string", "expected", "expected_unknown_error")), TRUE)),
            add(add(SubCmd("subsub"),
                Arg("--bar")),
                set_parser(Arg("--num"), Parser("string", "expected", "expected_invalid_number")))))

\* A command without subcommands whose only option is the int `--count`.
CmdCount == add(Cmd("cmd"), set_value_type(Arg("--count"), "int"))

\* A command without subcommands whose string options have generators as
\* defaults: one returning T, one returning an engaged optional, one
\* returning an expected holding a value, one returning nullopt.
CmdGenerators ==
    add(add(add(add(Cmd("cmd"),
        set_default(set_value_type(Arg("--plain"), "string"), DefaultFn("string", "plain", "p"))),
        set_default(set_value_type(Arg("--some"), "string"), DefaultFn("string", "optional", some("o")))),
        set_default(set_value_type(Arg("--exp"), "string"), DefaultFn("string", "expected", Ok("e")))),
        set_default(set_value_type(Arg("--none"), "string"), DefaultFn("string", "optional", nullopt)))

\* A command without subcommands whose only option is `--level`, of the
\* 8-bit signed integer type.
CmdLevel == add(Cmd("cmd"), set_value_type(Arg("--level"), "int8"))

\* cmd [--v] [sub [--gen G] [--none N] [--nodef D] [--late L]]: the options of
\* the childless subcommand have, in this order, a generator returning T,
\* a generator returning nullopt, no default and a type that cannot be
\* default-constructed (built by a parser from the token), and a generator
\* returning T.
CmdFill ==
    add_subcmd(add(Cmd("cmd"), Arg("--v")),
        add(add(add(add(SubCmd("sub"),
            set_default(set_value_type(Arg("--gen"), "string"), DefaultFn("string", "plain", "g"))),
            set_default(set_value_type(Arg("--none"), "string"), DefaultFn("string", "optional", nullopt))),
            set_parser(Arg("--nodef"), Parser("nodefault", "plain", "identity"))),
            set_default(set_value_type(Arg("--late"), "string"), DefaultFn("string", "plain", "l"))))

\* A command whose flag `both` has the name of its first child, whose
\* option `--dup` is declared twice (with a string value, then as a flag)
\* and whose children `twin` are two of one name; the child `both` has a
\* child `leaf` of its own.
CmdOrder ==
    add_subcmd(add_subcmd(add_subcmd(add(add(add(Cmd("cmd"),
        Arg("both")),
        set_value_type(Arg("--dup"), "string")),
        Arg("--dup")),
        add(add_subcmd(SubCmd("both"), add(SubCmd("leaf"), Arg("--l"))), Arg("--a"))),
        add(SubCmd("twin"), Arg("--one"))),
        add(SubCmd("twin"), Arg("--two")))

Trees == <<CmdFlagCount, CmdParsers, CmdNested, CmdCount, CmdGenerators, CmdLevel, CmdFill, CmdOrder>>

\* The tokens tried on each tree: its names, the help token and values.
Tokens ==
    << {"--flag", "--count", "5", "5x", "--help"},
       {"--opt", "--num", "--bar", "--required", "a", "bad", "--help"},
       {"--str", "sub", "--x", "subsub", "--bar", "--num", "a", "bad", "--help"},
       {"--count", "1", "-7", "0x1f"},
       {"--plain", "--some", "--exp", "--none", "a"},
       {"--level", "", "127", "128", "-129", "5x", "0x-10", "-0x10"},
       {"sub", "--none", "--nodef", "--late", "a"},
       {"both", "--dup", "twin", "--one", "leaf", "a"} >>

\* The tokens of the token lists parsed concurrently.
ConcurrentTokens ==
    << {"--flag", "--count", "5", "5x"},
       {"--opt", "--num", "--bar", "bad"},
       {"--str", "sub", "--x", "a"},
       {"--count", "1", "-7"},
       {"--plain", "--none", "a"},
       {"--level", "127", "5x"},
       {"sub", "--none", "a"},
       {"both", "--dup", "twin"} >>

BoundedSeq(S, n) == UNION {[1..k -> S] : k \in 0..n}

RECURSIVE NodeAt(_, _)
\* The node reached from `node` by following the child indexes of `path`.
NodeAt(node, path) ==
    IF path = <<>> THEN node ELSE NodeAt(node.m_subs[Head(path)], Tail(path))

(***************************************************************************)
(* col::optional<T, Optimized> (include/col/optional.h).  The optimized    *)
(* form keeps a T and stands for "no value" by the sentinel of T (nullptr  *)
(* for a pointer type); the other form wraps a std::optional<T>.           *)
(***************************************************************************)
sentinel_value == "nullptr"

\* The non-null pointers, resp. the values of T, the objects are built from.
Pointers == {"p1", "p2", "p3", "p4", "p5", "p6"}

optional(Optimized, m_value) == [Optimized |-> Optimized, m_value |-> m_value]

\* The objects of the two forms.
Optionals(Optimized) ==
    IF Optimized
    THEN {optional(TRUE, v) : v \in Pointers \cup {sentinel_value}}
    ELSE {optional(FALSE, v) : v \in {some(p) : p \in Pointers} \cup {nullopt}}

has_value(o) == IF o.Optimized THEN o.m_value # sentinel_value ELSE o.m_value.has

\* A reset that leaves the object as it is.
reset_keep(o) == o

\* reset(): `m_value = sentinel_value`, resp. m_value.reset().
reset(o) == IF o.Optimized THEN [o EXCEPT !.m_value = sentinel_value] ELSE [o EXCEPT !.m_value = nullopt]

\* this->swap(rhs): the two objects afterwards.
optional_swap(self, rhs) ==
    IF ~self.Optimized
    THEN [self |-> [self EXCEPT !.m_value = rhs.m_value], rhs |-> [rhs EXCEPT !.m_value = self.m_value]]
    ELSE LET self_has == has_value(self)
             rhs_has == has_value(rhs)
         IN  IF self_has /\ rhs_has
             THEN IF rhs_has
                  THEN [self |-> [self EXCEPT !.m_value = rhs.m_value],
                        rhs |-> [rhs EXCEPT !.m_value = self.m_value]]
                  ELSE [self |-> reset(self), rhs |-> [rhs EXCEPT !.m_value = self.m_value]]
             ELSE IF rhs_has
             THEN [self |-> [self EXCEPT !.m_value = rhs.m_value], rhs |-> reset(rhs)]
             ELSE [self |-> self, rhs |-> rhs]

\* col::swap(x, y).
swap(a, b) == optional_swap(a, b)

\* No col::optional object takes part in a parse.
NoOptionals == x = optional(TRUE, sentinel_value) /\ y = optional(TRUE, sentinel_value)

(***************************************************************************)
(* The state of one parse call.                                            *)
(***************************************************************************)
sentinel == Len(argv) + 1

Running == [status |-> "running"]
Crashed == [status |-> "crashed"]
Returned(res) == [status |-> "returned", res |-> res]

\* The locals of Cmd::parse / SubCmd::parse on entry: every slot of `init`
\* and the selection cell `subsubcmd` are empty optionals.
Frame(path) ==
    [path |-> path,
     init |-> [i \in 1..Len(NodeAt(Trees[cmd], path).m_args) |-> nullopt],
     subsubcmd |-> nullopt,
     pc |-> "loop",
     ret |-> blank]

Top == stack[Len(stack)]
TopNode == NodeAt(Trees[cmd], Top.path)

SetTop(frame) == [stack EXCEPT ![Len(stack)] = frame]

\* A search that keeps the last element named a instead of the first.
tuple_try_foreach_last(t, a) ==
    IF \E i \in DOMAIN t : t[i].m_name = a
    THEN CHOOSE i \in DOMAIN t : t[i].m_name = a /\ \A j \in (i + 1)..Len(t) : t[j].m_name # a
    ELSE 0

\* tuple_try_foreach with a lambda that compares the token with get_name():
\* the index of the first element named a, 0 when every element continues.
tuple_try_foreach_name(t, a) ==
    IF \E i \in DOMAIN t : t[i].m_name = a
    THEN CHOOSE i \in DOMAIN t : t[i].m_name = a /\ \A j \in 1..(i - 1) : t[j].m_name # a
    ELSE 0

Init ==
    /\ cmd \in DOMAIN Trees
    /\ argv \in BoundedSeq(Tokens[cmd], MaxLen)
    /\ iter = 1
    /\ stack = <<Frame(<<>>)>>
    /\ result = Running
    /\ events = <<>>
    /\ calls = <<>>
    /\ NoOptionals

(***************************************************************************)
(* The loop `while( iter != sentinel )` of parse.                          *)
(***************************************************************************)
InLoop == stack # <<>> /\ Top.pc = "loop" /\ iter # sentinel

\* The index of the child subcommand the current token selects (0: none).
SubCmdMatch == tuple_try_foreach_name(TopNode.m_subs, argv[iter])

\* The index of the option the current token names (0: none).
ArgMatch == tuple_try_foreach_name(TopNode.m_args, argv[iter])

\* A child's name matched: the token is consumed and cfg.parse(iter, sentinel)
\* is entered.
ParseSubCmd ==
    /\ InLoop
    /\ SubCmdMatch # 0
    /\ iter' = iter + 1
    /\ stack' = Append(SetTop([Top EXCEPT !.pc = "call"]), Frame(Append(Top.path, SubCmdMatch)))
    /\ events' = Append(events, [ev |-> "subcmd", path |-> Top.path, index |-> SubCmdMatch, at |-> iter])
    /\ UNCHANGED <<x, y, calls, cmd, argv, result>>

\* A child's value dropped: the none alternative is emplaced instead.
SubCmdResult_mut(frame, index, res) ==
    IF res.ok
    THEN [frame EXCEPT !.subsubcmd = some([index |-> 0]), !.pc = "after_loop"]
    ELSE [frame EXCEPT !.pc = "ret", !.ret = Unexpected(res.error)]

\* The parent's handling of what cfg.parse returned: a value is emplaced into
\* subsubcmd and the loop is left, an error is returned as it is.
SubCmdResult(frame, index, res) ==
    IF res.ok
    THEN [frame EXCEPT !.subsubcmd = some([index |-> index, val |-> res.val]), !.pc = "after_loop"]
    ELSE [frame EXCEPT !.pc = "ret", !.ret = Unexpected(res.error)]

\* A nested SubCmd::parse returns to the parse that called it.
SubCmdReturn ==
    /\ Len(stack) >= 2
    /\ Top.pc = "ret"
    /\ LET parent == stack[Len(stack) - 1]
           index == Top.path[Len(Top.path)]
       IN  stack' = Append(SubSeq(stack, 1, Len(stack) - 2), SubCmdResult(parent, index, Top.ret))
    /\ events' = Append(events, [ev |-> "return", path |-> Top.path, res |-> Top.ret, at |-> iter])
    /\ UNCHANGED <<x, y, calls, cmd, argv, iter, result>>

\* The outermost Cmd::parse returns to its caller.
CmdReturn ==
    /\ Len(stack) = 1
    /\ Top.pc = "ret"
    /\ result' = Returned(Top.ret)
    /\ stack' = <<>>
    /\ UNCHANGED <<x, y, calls, cmd, argv, iter, events>>

\* An option's error dropped: the loop goes on with the next token.
ArgResult_mut(frame, i, res) ==
    IF res.ok THEN [frame EXCEPT !.init[i] = some(res.val)] ELSE frame

\* A value stored in slot i with the slots declared after it emptied: what
\* an option leaves depends on the options that follow it in the input.
ArgResult_clear(frame, i, res) ==
    IF res.ok
    THEN [frame EXCEPT !.init = [j \in DOMAIN @ |-> IF j = i THEN some(res.val)
                                                   ELSE IF j > i THEN nullopt ELSE @[j]]]
    ELSE [frame EXCEPT !.pc = "ret", !.ret = Unexpected(res.error)]

\* What the loop does with the result of config.parse for option i:
\* value.emplace on success, return of the error otherwise.
ArgResult(frame, i, res) ==
    IF res.ok
    THEN [frame EXCEPT !.init[i] = some(res.val)]
    ELSE [frame EXCEPT !.pc = "ret", !.ret = Unexpected(res.error)]

\* An option's name matched: the name token is consumed and Arg::parse runs.
ParseArg ==
    /\ InLoop
    /\ SubCmdMatch = 0
    /\ ArgMatch # 0
    /\ LET i == ArgMatch
           r == ArgParse(TopNode.m_args[i], argv, iter + 1)
       IN  /\ iter' = r.iter
           /\ stack' = SetTop(ArgResult(Top, i, r.res))
           /\ events' = events \o r.calls \o
                          <<[ev |-> "arg", path |-> Top.path, index |-> i, at |-> iter,
                             next |-> r.iter, res |-> r.res, old |-> Top.init[i]]>>
    /\ UNCHANGED <<x, y, calls, cmd, argv, result>>

\* No child and no option is named by the token, in a node with children:
\* `res.is_break()` is false and UnknownOption is returned.
UnknownToken ==
    /\ InLoop
    /\ TopNode.m_subs # <<>>
    /\ SubCmdMatch = 0
    /\ ArgMatch = 0
    /\ stack' = SetTop([Top EXCEPT !.pc = "ret", !.ret = Unexpected(UnknownOption(argv[iter]))])
    /\ events' = Append(events, [ev |-> "unknown", path |-> Top.path, at |-> iter,
                                 res |-> Continue, to_break |-> FALSE])
    /\ UNCHANGED <<x, y, calls, cmd, argv, iter, result>>

\* No option is named by the token, in a node without children: the loop
\* calls res.to_break() on a Continue, which dereferences a null pointer.
\* The behaviour is undefined: the process may die, the engaged flag read
\* through the reference may be false (UnknownOption is then returned) or
\* true (an indeterminate ParseError is then returned).
UnknownTokenNoSubs ==
    /\ InLoop
    /\ TopNode.m_subs = <<>>
    /\ ArgMatch = 0
    /\ events' = Append(events, [ev |-> "unknown", path |-> Top.path, at |-> iter,
                                 res |-> Continue, to_break |-> TRUE])
    /\ \/ /\ result' = Crashed
          /\ stack' = <<>>
       \/ /\ stack' = SetTop([Top EXCEPT !.pc = "ret", !.ret = Unexpected(UnknownOption(argv[iter]))])
          /\ UNCHANGED result
       \/ /\ stack' = SetTop([Top EXCEPT !.pc = "ret", !.ret = Unexpected([type |-> "indeterminate"])])
          /\ UNCHANGED result
    /\ UNCHANGED <<x, y, calls, cmd, argv, iter>>

(***************************************************************************)
(* After the loop: the leftover check, the none selection, the default     *)
(* fill of the unset slots and the construction of the result.             *)
(***************************************************************************)
is_default_constructible(ValueT) == ValueT \in {"bool", "string", "int", "int8", "optstring"}

\* value.emplace() with no argument: the value-initialised T.
ValueInit(ValueT) ==
    CASE ValueT = "bool" -> FALSE
      [] ValueT = "string" -> ""
      [] ValueT = "optstring" -> nullopt
      [] OTHER -> 0

\* A default fill that value-initialises the slot whatever the declared default.
DefaultInitOne_mut(arg) == [cf |-> Continue, val |-> ValueInit(arg.T), calls |-> <<>>]

\* The default-fill lambda on one unset slot: Continue with the value to
\* emplace, or Break with the error; `calls` are the generator invocations.
DefaultInitOne(arg) ==
    LET de == arg.m_default
        call == <<[ev |-> "default_fn", name |-> arg.m_name]>>
    IN  IF de.kind = "blank"
        THEN IF is_default_constructible(arg.T)
             THEN [cf |-> Continue, val |-> ValueInit(arg.T), calls |-> <<>>]
             ELSE [cf |-> Break(InvalidConfiguration(arg.m_name, "EmptyDefault")), calls |-> <<>>]
        ELSE IF de.kind = "fn"
        THEN LET invk_res == InvokeDefault(de)
             IN  CASE de.ret = "plain" -> [cf |-> Continue, val |-> invk_res, calls |-> call]
                   [] de.ret = "optional" ->
                        IF invk_res.has
                        THEN [cf |-> Continue, val |-> invk_res.val, calls |-> call]
                        ELSE [cf |-> Break(DefaultGenerationError(arg.m_name)), calls |-> call]
                   [] de.ret = "expected" ->
                        IF invk_res.ok
                        THEN [cf |-> Continue, val |-> invk_res.val, calls |-> call]
                        ELSE [cf |-> Break(DefaultGenerationError(arg.m_name)), calls |-> call]
                   [] OTHER ->
                        [cf |-> Break(InternalLogicError(arg.m_name, "InvalidFunctionReturnType")),
                         calls |-> call]
        ELSE [cf |-> Continue, val |-> de.val, calls |-> <<>>]

RECURSIVE DefaultInit(_, _, _)
\* A default fill without the `if( value.has_value() ) return Continue` test:
\* the default is produced for a slot the command line has set, too.
DefaultInit_mut(args, init, i) ==
    IF i > Len(args) THEN [init |-> init, cf |-> Continue, calls |-> <<>>]
    ELSE LET one == DefaultInitOne(args[i])
         IN  IF is_break(one.cf)
             THEN [init |-> init, cf |-> one.cf, calls |-> one.calls]
             ELSE LET rest == DefaultInit(args, [init EXCEPT ![i] = some(one.val)], i + 1)
                  IN  [rest EXCEPT !.calls = one.calls \o @]

\* A default fill that passes over a slot whose default cannot be produced.
DefaultInit_swallow(args, init, i) ==
    IF i > Len(args) THEN [init |-> init, cf |-> Continue, calls |-> <<>>]
    ELSE IF init[i].has THEN DefaultInit(args, init, i + 1)
    ELSE LET one == DefaultInitOne(args[i])
             rest == DefaultInit(args, IF is_break(one.cf) THEN init
                                       ELSE [init EXCEPT ![i] = some(one.val)], i + 1)
         IN  [rest EXCEPT !.calls = one.calls \o @]

\* A default fill that goes on after a Break and returns the last one.
DefaultInit_nostop(args, init, i) ==
    IF i > Len(args) THEN [init |-> init, cf |-> Continue, calls |-> <<>>]
    ELSE IF init[i].has THEN DefaultInit(args, init, i + 1)
    ELSE LET one == DefaultInitOne(args[i])
             rest == DefaultInit(args, IF is_break(one.cf) THEN init
                                       ELSE [init EXCEPT ![i] = some(one.val)], i + 1)
         IN  [init |-> rest.init,
              cf |-> IF is_break(rest.cf) THEN rest.cf ELSE one.cf,
              calls |-> one.calls \o rest.calls]

\* tuple_try_foreach of the default-fill lambda over the zipped (Arg, slot)
\* pairs from index i on: stops at the first Break.
DefaultInit(args, init, i) ==
    IF i > Len(args) THEN [init |-> init, cf |-> Continue, calls |-> <<>>]
    ELSE IF init[i].has THEN DefaultInit(args, init, i + 1)
    ELSE LET one == DefaultInitOne(args[i])
         IN  IF is_break(one.cf)
             THEN [init |-> init, cf |-> one.cf, calls |-> one.calls]
             ELSE LET rest == DefaultInit(args, [init EXCEPT ![i] = some(one.val)], i + 1)
                  IN  [rest EXCEPT !.calls = one.calls \o @]

\* A selection cell left as the loop left it.
EmplaceMonostate_mut(subsubcmd) == subsubcmd

\* A none tag emplaced whatever the cell holds.
EmplaceMonostate_always(subsubcmd) == some([index |-> 0])

\* `if( !subsubcmd.has_value() ) subsubcmd.emplace(std::in_place_index<0>, std::monostate{})`.
EmplaceMonostate(subsubcmd) ==
    IF ~subsubcmd.has THEN some([index |-> 0]) ELSE subsubcmd

\* operator* of an optional; reading an empty one yields no defined value.
Deref(o) == IF o.has THEN o.val ELSE [indeterminate |-> TRUE]

\* M{ std::move(*subsubcmd), (*ts)... } resp. M{ (*ts)... }.
Construct(node, subsubcmd, init) ==
    IF node.m_subs # <<>>
    THEN [subcmd |-> Deref(subsubcmd), args |-> [i \in DOMAIN init |-> Deref(init[i])]]
    ELSE [args |-> [i \in DOMAIN init |-> Deref(init[i])]]

\* The childless SubCmd has no `if( iter != sentinel )` check after its loop.
HasLeftoverCheck(node) == node.root \/ node.m_subs # <<>>

\* Everything parse does after its loop, as the frame it returns with and
\* the generator invocations made.
AfterLoop(node, frame, it, end) ==
    IF HasLeftoverCheck(node) /\ it # end
    THEN [frame |-> [frame EXCEPT !.pc = "ret", !.ret = Unexpected(UnknownOption(argv[it]))],
          calls |-> <<>>]
    ELSE LET sel == IF node.m_subs # <<>> THEN EmplaceMonostate(frame.subsubcmd) ELSE frame.subsubcmd
             fill == DefaultInit(node.m_args, frame.init, 1)
         IN  [frame |-> [frame EXCEPT !.subsubcmd = sel,
                                      !.init = fill.init,
                                      !.pc = "ret",
                                      !.ret = IF is_break(fill.cf)
                                              THEN Unexpected(fill.cf.val)
                                              ELSE Ok(Construct(node, sel, fill.init))],
              calls |-> fill.calls]

\* A loop that may be left at any token.
Finish_early ==
    /\ stack # <<>>
    /\ Top.pc \in {"after_loop", "loop"}
    /\ LET r == AfterLoop(TopNode, Top, iter, sentinel)
       IN  /\ stack' = SetTop(r.frame)
           /\ events' = events \o r.calls \o
                          <<[ev |-> "finish", path |-> Top.path, at |-> iter,
                             init |-> Top.init, subsubcmd |-> Top.subsubcmd, frame |-> r.frame]>>
    /\ UNCHANGED <<x, y, calls, cmd, argv, iter, result>>

\* The loop has ended (the cursor is exhausted, or a child was selected):
\* parse runs its tail and is about to return.
Finish ==
    /\ stack # <<>>
    /\ \/ Top.pc = "after_loop"
       \/ Top.pc = "loop" /\ iter = sentinel
    /\ LET r == AfterLoop(TopNode, Top, iter, sentinel)
       IN  /\ stack' = SetTop(r.frame)
           /\ events' = events \o r.calls \o
                          <<[ev |-> "finish", path |-> Top.path, at |-> iter,
                             init |-> Top.init, subsubcmd |-> Top.subsubcmd, frame |-> r.frame]>>
    /\ UNCHANGED <<x, y, calls, cmd, argv, iter, result>>

Next ==
    \/ ParseSubCmd
    \/ SubCmdReturn
    \/ CmdReturn
    \/ ParseArg
    \/ UnknownToken
    \/ UnknownTokenNoSubs
    \/ Finish

Spec == Init /\ [][Next]_vars

(***************************************************************************)
(* Several parse calls on one tree.  What a call owns is its token range,  *)
(* its cursor, the locals init / subsubcmd of its activation records and   *)
(* what it returns; the tree (`this`, const) is all the calls share.       *)
(***************************************************************************)
\* Locals of which the slot tables are one object shared by the calls.
Locals_mut ==
    [argv |-> argv, iter |-> iter, stack |-> calls[1].stack, result |-> result, events |-> events]

\* The locals of the call being run.
Locals == [argv |-> argv, iter |-> iter, stack |-> stack, result |-> result, events |-> events]

\* A call of Cmd::parse(r) that has not taken a step yet.
FreshCall(r) == [argv |-> r, iter |-> 1, stack |-> <<Frame(<<>>)>>, result |-> Running, events |-> <<>>]

\* The caller calls parse again with the same token list once the previous
\* call has returned.
CallAgain ==
    /\ result.status = "returned"
    /\ Len(calls) < MaxCalls - 1
    /\ calls' = Append(calls, Locals)
    /\ iter' = 1
    /\ stack' = <<Frame(<<>>)>>
    /\ result' = Running
    /\ events' = <<>>
    /\ UNCHANGED <<x, y, cmd, argv>>

\* Longest token list of the calls followed to their end.
MaxLenFair == 4

\* The tokens of the token lists of the calls followed to their end.
FairTokens ==
    << {"--flag", "--count", "5"},
       {"--opt", "--bar", "bad"},
       {"--str", "a", "sub", "subsub"},
       {"--count", "1"},
       {"--none", "a"},
       {"--level", "5x"},
       {"sub", "--none", "a"},
       {"both", "--dup", "twin"} >>

InitFair ==
    /\ cmd \in DOMAIN Trees
    /\ argv \in BoundedSeq(FairTokens[cmd], MaxLenFair)
    /\ iter = 1
    /\ stack = <<Frame(<<>>)>>
    /\ result = Running
    /\ events = <<>>
    /\ calls = <<>>
    /\ NoOptionals

\* parse is a sequential function: a call that can take a step takes it.
SpecFair == InitFair /\ [][Next]_vars /\ WF_vars(Next)

NextRepeat == Next \/ CallAgain

SpecRepeat == Init /\ [][NextRepeat]_vars

\* Two calls on independent token lists, on two threads.
InitConcurrent ==
    /\ cmd \in DOMAIN Trees
    /\ argv \in BoundedSeq(ConcurrentTokens[cmd], MaxLenConcurrent)
    /\ iter = 1
    /\ stack = <<Frame(<<>>)>>
    /\ result = Running
    /\ events = <<>>
    /\ \E r \in BoundedSeq(ConcurrentTokens[cmd], MaxLenConcurrent) : calls = <<FreshCall(r)>>
    /\ NoOptionals

\* The scheduler runs the other thread, which still has steps to take: the
\* running call's locals are set aside and the other call's are resumed.
Switch ==
    /\ calls # <<>>
    /\ calls[1].result = Running
    /\ argv' = calls[1].argv
    /\ iter' = calls[1].iter
    /\ stack' = calls[1].stack
    /\ result' = calls[1].result
    /\ events' = calls[1].events
    /\ calls' = <<Locals>>
    /\ UNCHANGED <<x, y, cmd>>

NextConcurrent == Next \/ Switch

SpecConcurrent == InitConcurrent /\ [][NextConcurrent]_vars

(***************************************************************************)
(* Cmd::parse as a function of the token list: the set of what one call,   *)
(* run alone from the token at `it` with the slots `init`, can return (or  *)
(* that it can end the process), and where it leaves the cursor.           *)
(***************************************************************************)
\* The tail of parse, entered with the slots and the selection cell.
TailOf(node, init, subsubcmd, it, args) ==
    LET frame == [path |-> <<>>, init |-> init, subsubcmd |-> subsubcmd, pc |-> "after_loop", ret |-> blank]
    IN  [status |-> "returned", res |-> AfterLoop(node, frame, it, Len(args) + 1).frame.ret, iter |-> it]

RECURSIVE ParseNode(_, _, _, _)
ParseNode(node, args, it, init) ==
    IF it = Len(args) + 1
    THEN {TailOf(node, init, nullopt, it, args)}
    ELSE LET a == args[it]
             s == tuple_try_foreach_name(node.m_subs, a)
             i == tuple_try_foreach_name(node.m_args, a)
         IN  IF s # 0
             THEN LET child == node.m_subs[s]
                      outs == ParseNode(child, args, it + 1, [j \in DOMAIN child.m_args |-> nullopt])
                  IN  {IF o.status = "crashed" THEN o
                       ELSE IF o.res.ok
                       THEN TailOf(node, init, some([index |-> s, val |-> o.res.val]), o.iter, args)
                       ELSE o : o \in outs}
             ELSE IF i # 0
             THEN LET r == ArgParse(node.m_args[i], args, it + 1)
                  IN  IF r.res.ok
                      THEN ParseNode(node, args, r.iter, [init EXCEPT ![i] = some(r.res.val)])
                      ELSE {[status |-> "returned", res |-> r.res, iter |-> r.iter]}
             ELSE IF node.m_subs # <<>>
             THEN {[status |-> "returned", res |-> Unexpected(UnknownOption(a)), iter |-> it]}
             ELSE {[status |-> "crashed"],
                   [status |-> "returned", res |-> Unexpected(UnknownOption(a)), iter |-> it],
                   [status |-> "returned", res |-> Unexpected([type |-> "indeterminate"]), iter |-> it]}

\* What Cmd::parse(r), run alone, can return.
ParseAlone(r) ==
    LET root == Trees[cmd]
    IN  {IF o.status = "crashed" THEN Crashed ELSE Returned(o.res) :
            o \in ParseNode(root, r, 1, [j \in DOMAIN root.m_args |-> nullopt])}

(***************************************************************************)
(* col::ArgParser (arg_parser.h).  The errors of col::err, the two kinds   *)
(* of configuration and the converters the parsers are built with.         *)
(***************************************************************************)
ArgumentConversionErr(config_name, given_str, message) ==
    [type |-> "ArgumentConversionErr", config_name |-> config_name,
     expected_type |-> "<unknown type>", given_str |-> given_str, message |-> message]
NullValueParserErr(config_name) == [type |-> "NullValueParserErr", config_name |-> config_name]
NoValueGivenErr(config_name, option_name) ==
    [type |-> "NoValueGivenErr", config_name |-> config_name, option_name |-> option_name]
DuplicateSelctionErr(config_name, current) ==
    [type |-> "DuplicateSelctionErr", config_name |-> config_name, printable_current_value |-> current]
err_UnknownOption(value) == [type |-> "err::UnknownOption", value |-> value]
NotEnoughArguments(required_options) ==
    [type |-> "NotEnoughArguments", required_options |-> required_options]

\* The converter an OptionConfig<T> is constructed with: a function pointer
\* (F is a pointer type) to the built-in conversion.
DefaultConverter == [is_pointer |-> TRUE, ret |-> "expected", fn |-> "default"]

\* A null pointer of the default function pointer type.
NullConverter == [is_pointer |-> TRUE, ret |-> "expected", fn |-> "nullptr"]

\* The closure of the test: "ok" and "err" give the enumerators of Res.
ResConverter == [is_pointer |-> FALSE, ret |-> "expected", fn |-> "res"]

\* A closure that converts as the default converter does: its type is not
\* the function pointer type an OptionConfig is constructed with.
ClosureConverter == [is_pointer |-> FALSE, ret |-> "expected", fn |-> "default"]

FlagConfig(name) == [kind |-> "flag", m_name |-> name, m_default_value |-> FALSE]

OptionConfig(ValueT, name, value_name) ==
    [kind |-> "option", T |-> ValueT, m_name |-> name, m_value_name |-> value_name, m_required |-> FALSE,
     m_converter |-> DefaultConverter, m_default_value |-> nullopt]

\* A set_default_value that leaves the required mark as it was.
set_default_value_mut(config, v) ==
    IF config.kind = "flag"
    THEN [config EXCEPT !.m_default_value = v]
    ELSE [config EXCEPT !.m_default_value = some(v)]

\* FlagConfig::set_default_value(bool) and OptionConfig::set_default_value(args...).
set_default_value(config, v) ==
    IF config.kind = "flag"
    THEN [config EXCEPT !.m_default_value = v]
    ELSE [config EXCEPT !.m_default_value = some(v), !.m_required = FALSE]

set_converter(config, f) == [config EXCEPT !.m_converter = f]

\* OptionConfig::set_required(bool).
OptionConfig_set_required(config, required) == [config EXCEPT !.m_required = required]

\* detail::is_optional_type_v<T>.
is_optional_type(ValueT) == ValueT = "optstring"

\* A usage message whose brackets follow the default only.
get_usage_message_mut(config) ==
    LET message == <<config.m_name, " ", config.m_value_name>>
    IN  IF ~is_optional_type(config.T) /\ ~config.m_default_value.has
        THEN message ELSE <<"[">> \o message \o <<"]">>

\* OptionConfig::get_usage_message(): the string as the pieces it is
\* concatenated from.
get_usage_message(config) ==
    LET message == <<config.m_name, " ", config.m_value_name>>
    IN  IF config.m_required \/ (~is_optional_type(config.T) /\ ~config.m_default_value.has)
        THEN message ELSE <<"[">> \o message \o <<"]">>

\* FlagConfig::get_default_value() is a bool, OptionConfig's an optional.
get_default_value(config) ==
    IF config.kind = "flag" THEN some(config.m_default_value) ELSE config.m_default_value

starts_with_0b(str) == Len(str) >= 2 /\ str[1] = "0" /\ str[2] = "b"

\* std::invoke(m_converter, arg) for a converter that is not null.
InvokeConverter(config, arg) ==
    CASE config.m_converter.fn = "res" ->
            IF arg = "ok" THEN Ok("Ok")
            ELSE IF arg = "err" THEN Ok("Err")
            ELSE Unexpected("invalid Res")
      [] config.T \in {"int", "int8"} ->
            LET a == chars(arg)
                str == IF starts_with_0x(a) \/ starts_with_0b(a) THEN SubSeq(a, 3, Len(a)) ELSE a
                r == from_chars(str, config.T, 10)
            IN  CASE r.ec = "ok" -> Ok(r.value)
                  [] r.ec = "invalid_argument" -> Unexpected("invalid argument")
                  [] OTHER -> Unexpected("out of range")
      [] config.T = "string" -> Ok(arg)
      [] config.T = "optstring" -> Ok(some(arg))
      [] OTHER -> Unexpected("unexpected error")

\* A call_converter that invokes the converter without the null test.
call_converter_mut(config, arg) ==
    LET res == InvokeConverter(config, arg)
        call == <<[ev |-> "converter", name |-> config.m_name, arg |-> arg]>>
    IN  IF res.ok
        THEN [res |-> Ok(res.val), calls |-> call]
        ELSE [res |-> Unexpected(ArgumentConversionErr(config.m_name, arg, res.error)), calls |-> call]

\* OptionConfig::call_converter(arg): the result and the invocations made.
call_converter(config, arg) ==
    IF config.m_converter.is_pointer /\ config.m_converter.fn = "nullptr"
    THEN [res |-> Unexpected(NullValueParserErr(config.m_name)), calls |-> <<>>]
    ELSE LET res == InvokeConverter(config, arg)
             call == <<[ev |-> "converter", name |-> config.m_name, arg |-> arg]>>
         IN  IF config.m_converter.ret = "expected"
             THEN IF res.ok
                  THEN [res |-> Ok(res.val), calls |-> call]
                  ELSE [res |-> Unexpected(ArgumentConversionErr(config.m_name, arg, res.error)),
                        calls |-> call]
             ELSE [res |-> Ok(res.val), calls |-> call]

\* ArgParser{} and add_config.
ArgParser == <<>>
add_config(ap, config) == Append(ap, config)

\* The parsers of the tests `ok`, `null_callback` and `default_values`, and
\* a parser with a flag before an option whose converter is a null pointer.
ArgParserOk ==
    add_config(add_config(add_config(ArgParser,
        FlagConfig("--verbose")),
        set_default_value(OptionConfig("int", "--count", "N"), 10)),
        set_converter(OptionConfig("Res", "--res", "RES"), ResConverter))

ArgParserNullCallback ==
    add_config(ArgParser, set_converter(OptionConfig("int", "--num", "N"), NullConverter))

ArgParserDefaultValues ==
    add_config(add_config(ArgParser,
        set_default_value(FlagConfig("--flag"), TRUE)),
        set_default_value(OptionConfig("int", "--opt", "N"), 1))

ArgParserFlagNull ==
    add_config(add_config(ArgParser,
        FlagConfig("--verbose")),
        set_default_value(set_converter(OptionConfig("int", "--num", "N"), NullConverter), 5))

\* A parser with an option of the type std::optional<std::string> that is
\* not required and has no default, and an int option that has a default
\* and is marked required afterwards.
ArgParserOptional ==
    add_config(add_config(ArgParser,
        OptionConfig("optstring", "--name", "NAME")),
        OptionConfig_set_required(set_default_value(OptionConfig("int", "--req", "N"), 7), TRUE))

\* A parser with an int option that is required and one that is not,
\* neither with a default.
ArgParserRequired ==
    add_config(add_config(ArgParser,
        OptionConfig_set_required(OptionConfig("int", "--must", "N"), TRUE)),
        OptionConfig("int", "--maybe", "N"))

\* A parser with two options of the type std::optional<std::string>: one
\* with a closure for its converter, one that is required.
ArgParserClosure ==
    add_config(add_config(ArgParser,
        set_converter(OptionConfig("optstring", "--tag", "TAG"), ClosureConverter)),
        OptionConfig_set_required(OptionConfig("optstring", "--who", "WHO"), TRUE))

ArgParsers == <<ArgParserOk, ArgParserNullCallback, ArgParserDefaultValues, ArgParserFlagNull,
                ArgParserOptional, ArgParserRequired, ArgParserClosure>>

\* The tokens tried on each parser.
ArgParserTokens ==
    << {"--verbose", "--count", "--res", "ok", "5"},
       {"--num", "0"},
       {"--flag", "--opt", "1", "bad"},
       {"--verbose", "--num", "0"},
       {"--name", "--req", "a", "1"},
       {"--must", "--maybe", "0", "1"},
       {"--tag", "--who", "a"} >>

m_configs == ArgParsers[cmd]

\* detail::init_args_tuple: every slot an empty optional.
init_args_tuple(configs) == [i \in DOMAIN configs |-> nullopt]

RECURSIVE matches_configs_impl(_, _, _)
\* A chain without the `if( val.has_value() )` test: a second occurrence of
\* an option overwrites the value of the first.
matches_configs_impl_overwrite(Index, it, init_args) ==
    LET config == m_configs[Index]
        arg == argv[it]
    IN  IF arg = config.m_name
        THEN IF config.kind = "flag"
             THEN [res |-> Ok(TRUE), iter |-> it + 1,
                   init_args |-> [init_args EXCEPT ![Index] = some(TRUE)], calls |-> <<>>]
             ELSE IF it + 1 = sentinel
             THEN [res |-> Unexpected(NoValueGivenErr(config.m_name, config.m_name)),
                   iter |-> it + 1, init_args |-> init_args, calls |-> <<>>]
             ELSE LET conv == call_converter(config, argv[it + 1])
                  IN  IF conv.res.ok
                      THEN [res |-> Ok(TRUE), iter |-> it + 2,
                            init_args |-> [init_args EXCEPT ![Index] = some(conv.res.val)],
                            calls |-> conv.calls]
                      ELSE [res |-> Unexpected(conv.res.error), iter |-> it + 1,
                            init_args |-> init_args, calls |-> conv.calls]
        ELSE IF Index < Len(m_configs)
        THEN matches_configs_impl(Index + 1, it, init_args)
        ELSE [res |-> Ok(FALSE), iter |-> it, init_args |-> init_args, calls |-> <<>>]

\* detail::matches_configs_impl<Index, Idx...>(iter, last, init_args): the
\* expected<bool, ParserError> it returns, the cursor and the slots it
\* leaves, and the converter invocations made.
matches_configs_impl(Index, it, init_args) ==
    LET val == init_args[Index]
        config == m_configs[Index]
        arg == argv[it]
    IN  IF arg = config.m_name
        THEN IF config.kind = "flag"
             THEN [res |-> Ok(TRUE), iter |-> it + 1,
                   init_args |-> [init_args EXCEPT ![Index] = some(TRUE)], calls |-> <<>>]
             ELSE IF it + 1 = sentinel
             THEN [res |-> Unexpected(NoValueGivenErr(config.m_name, config.m_name)),
                   iter |-> it + 1, init_args |-> init_args, calls |-> <<>>]
             ELSE LET conv == call_converter(config, argv[it + 1])
                  IN  IF conv.res.ok
                      THEN IF val.has
                           THEN [res |-> Unexpected(DuplicateSelctionErr(config.m_name,
                                            IF config.T = "string" THEN val ELSE nullopt)),
                                 iter |-> it + 1, init_args |-> init_args, calls |-> conv.calls]
                           ELSE [res |-> Ok(TRUE), iter |-> it + 2,
                                 init_args |-> [init_args EXCEPT ![Index] = some(conv.res.val)],
                                 calls |-> conv.calls]
                      ELSE [res |-> Unexpected(conv.res.error), iter |-> it + 1,
                            init_args |-> init_args, calls |-> conv.calls]
        ELSE IF Index < Len(m_configs)
        THEN matches_configs_impl(Index + 1, it, init_args)
        ELSE [res |-> Ok(FALSE), iter |-> it, init_args |-> init_args, calls |-> <<>>]

\* detail::matches_configs: the chain started at the first configuration;
\* with no configuration at all the index pack is empty.
matches_configs(it, init_args) ==
    IF m_configs = <<>>
    THEN [res |-> Ok(FALSE), iter |-> it, init_args |-> init_args, calls |-> <<>>]
    ELSE matches_configs_impl(1, it, init_args)

\* A default written over the slot whether or not the slot has a value.
set_default_if_defined_one_mut(val, cfg) == get_default_value(cfg)

\* detail::set_default_if_defined_one.
set_default_if_defined_one(val, cfg) ==
    IF ~val.has THEN get_default_value(cfg) ELSE val

set_default_if_defined(init_args) ==
    [i \in DOMAIN init_args |-> set_default_if_defined_one(init_args[i], m_configs[i])]

\* A check that asks for a value in the slots of the required options only.
check_args_tuple_initialized_one_required(arg, cfg) ==
    (cfg.kind = "option" /\ cfg.m_required) => arg.has

\* detail::check_args_tuple_initialized_one: Config is OptionConfig<T> when
\* the option still has the converter type it was constructed with.
check_args_tuple_initialized_one(arg, cfg) ==
    IF cfg.kind = "option" /\ cfg.m_converter.is_pointer
    THEN IF cfg.T = "optstring"
         THEN ~cfg.m_required \/ (arg.has /\ arg.val.has)
         ELSE arg.has
    ELSE arg.has

check_args_tuple_initialized(init_args) ==
    \A i \in DOMAIN init_args : check_args_tuple_initialized_one(init_args[i], m_configs[i])

\* detail::make_init_tuple: every slot dereferenced.
make_init_tuple(init_args) == [i \in DOMAIN init_args |-> Deref(init_args[i])]

\* ArgParser::parse(range) on entry.
InitArgParser ==
    /\ cmd \in DOMAIN ArgParsers
    /\ argv \in BoundedSeq(ArgParserTokens[cmd], MaxLen)
    /\ iter = 1
    /\ stack = <<[init_args |-> init_args_tuple(m_configs)]>>
    /\ result = Running
    /\ events = <<>>
    /\ calls = <<>>
    /\ NoOptionals

\* One turn of `while( iter != last )`: matches_configs, and the return of
\* its error or of UnknownOption when no configuration has the token's name.
ArgParserLoop ==
    /\ result = Running
    /\ iter # sentinel
    /\ LET m == matches_configs(iter, Top.init_args)
           ev == [ev |-> "match", at |-> iter, before |-> Top.init_args, m |-> m]
       IN  /\ events' = events \o m.calls \o <<ev>>
           /\ IF ~m.res.ok
              THEN /\ result' = Returned(Unexpected(m.res.error))
                   /\ UNCHANGED <<iter, stack>>
              ELSE IF m.res.val = FALSE
              THEN /\ result' = Returned(Unexpected(err_UnknownOption(argv[iter])))
                   /\ UNCHANGED <<iter, stack>>
              ELSE /\ iter' = m.iter
                   /\ stack' = <<[init_args |-> m.init_args]>>
                   /\ UNCHANGED result
    /\ UNCHANGED <<x, y, calls, cmd, argv>>

\* After the loop: the defaults, the check and the construction of T.
\* make_init_tuple dereferences every slot; reading an empty one is
\* undefined: the process may die, or T is built from an indeterminate value.
ArgParserTail ==
    /\ result = Running
    /\ iter = sentinel
    /\ LET init_args == set_default_if_defined(Top.init_args)
       IN  /\ stack' = <<[init_args |-> init_args]>>
           /\ events' = Append(events, [ev |-> "tail", before |-> Top.init_args, init_args |-> init_args])
           /\ IF check_args_tuple_initialized(init_args)
              THEN \/ result' = Returned(Ok(make_init_tuple(init_args)))
                   \/ /\ \E i \in DOMAIN init_args : ~init_args[i].has
                      /\ result' = Crashed
              ELSE result' = Returned(Unexpected(NotEnoughArguments(<<>>)))
    /\ UNCHANGED <<x, y, calls, cmd, argv, iter>>

NextArgParser == ArgParserLoop \/ ArgParserTail

SpecArgParser == InitArgParser /\ [][NextArgParser]_vars

(***************************************************************************)
(* Operations on two col::optional objects of one type.                    *)
(***************************************************************************)
\* Number of operations applied to the pair of objects.
MaxOps == 2

InitOptional ==
    /\ cmd = 1
    /\ argv = <<>>
    /\ iter = 1
    /\ stack = <<>>
    /\ result = Running
    /\ events = <<>>
    /\ calls = <<>>
    /\ \E Optimized \in BOOLEAN : x \in Optionals(Optimized) /\ y \in Optionals(Optimized)

\* x.swap(y).
MemberSwap ==
    /\ Len(events) < MaxOps
    /\ LET r == optional_swap(x, y)
       IN  x' = r.self /\ y' = r.rhs
    /\ events' = Append(events, [ev |-> "x.swap(y)", x |-> x, y |-> y])
    /\ UNCHANGED <<cmd, argv, iter, stack, result, calls>>

\* swap(x, y).
FreeSwap ==
    /\ Len(events) < MaxOps
    /\ LET r == swap(x, y)
       IN  x' = r.self /\ y' = r.rhs
    /\ events' = Append(events, [ev |-> "swap(x, y)", x |-> x, y |-> y])
    /\ UNCHANGED <<cmd, argv, iter, stack, result, calls>>

NextOptional == MemberSwap \/ FreeSwap

SpecOptional == InitOptional /\ [][NextOptional]_vars

(***************************************************************************)
(* An OptionConfig built by a chain of set_required / set_default_value.   *)
(***************************************************************************)
\* Longest chain of setter calls.
MaxChain == 4

InitOptionConfig ==
    /\ cmd = 1
    /\ argv = <<>>
    /\ iter = 1
    /\ stack = <<>>
    /\ result = Running
    /\ events = <<>>
    /\ calls = <<>>
    /\ \E ValueT \in {"string", "optstring"} : x = OptionConfig(ValueT, "name", "value")
    /\ y = optional(TRUE, sentinel_value)

\* x.set_required(required).
SetRequired ==
    /\ Len(events) < MaxChain
    /\ \E required \in BOOLEAN :
          /\ x' = OptionConfig_set_required(x, required)
          /\ events' = Append(events, [ev |-> "set_required", required |-> required])
    /\ UNCHANGED <<cmd, argv, iter, stack, result, calls, y>>

\* x.set_default_value(v) with a string v.
SetDefaultValue ==
    /\ Len(events) < MaxChain
    /\ \E v \in {"", "d"} :
          /\ x' = set_default_value(x, IF is_optional_type(x.T) THEN some(v) ELSE v)
          /\ events' = Append(events, [ev |-> "set_default_value", v |-> v])
    /\ UNCHANGED <<cmd, argv, iter, stack, result, calls, y>>

NextOptionConfig == SetRequired \/ SetDefaultValue

SpecOptionConfig == InitOptionConfig /\ [][NextOptionConfig]_vars

(***************************************************************************)
(* A sentinel-optimized col::optional<T> under emplace, reset and the      *)
(* assignment of nullopt.  The values of T are the pointers and the        *)
(* sentinel value.                                                         *)
(***************************************************************************)
\* Longest sequence of operations.
MaxOpsState == 3

\* emplace(args...): m_value is destroyed and constructed anew from args.
emplace(o, v) == [o EXCEPT !.m_value = v]

\* operator=(std::nullopt_t): `m_value = sentinel_value`.
assign_nullopt(o) == [o EXCEPT !.m_value = sentinel_value]

\* A default-constructed optional: m_value(sentinel_value).
InitOptionalState ==
    /\ cmd = 1
    /\ argv = <<>>
    /\ iter = 1
    /\ stack = <<>>
    /\ result = Running
    /\ events = <<>>
    /\ calls = <<>>
    /\ x = optional(TRUE, sentinel_value)
    /\ y = optional(TRUE, sentinel_value)

\* x.emplace(v), for any v of T.
Emplace ==
    /\ Len(events) < MaxOpsState
    /\ \E v \in Pointers \cup {sentinel_value} :
           /\ x' = emplace(x, v)
           /\ events' = Append(events, [ev |-> "emplace", v |-> v])
    /\ UNCHANGED <<cmd, argv, iter, stack, result, calls, y>>

\* x.reset().
Reset ==
    /\ Len(events) < MaxOpsState
    /\ x' = reset(x)
    /\ events' = Append(events, [ev |-> "reset"])
    /\ UNCHANGED <<cmd, argv, iter, stack, result, calls, y>>

\* x = std::nullopt.
AssignNullopt ==
    /\ Len(events) < MaxOpsState
    /\ x' = assign_nullopt(x)
    /\ events' = Append(events, [ev |-> "nullopt"])
    /\ UNCHANGED <<cmd, argv, iter, stack, result, calls, y>>

NextOptionalState == Emplace \/ Reset \/ AssignNullopt

SpecOptionalState == InitOptionalState /\ [][NextOptionalState]_vars

(***************************************************************************)
(* col::tuple_try_foreach(f, t) (tuple.h).  The tuple is the sequence of   *)
(* its elements, f the ControlFlow it returns for each element.            *)
(***************************************************************************)
\* Longest tuple.
MaxTuple == 3

\* The elements of the tuples, and what the callables return.
Elements == {"int", "const char*", "bool"}
ControlFlows == {Continue, Break(-1), Break(1)}

RECURSIVE tuple_try_foreach_impl(_, _, _)
\* A chain that invokes f on every element and returns the last Break.
tuple_try_foreach_impl_all(t, f, Index) ==
    LET res == f[t[Index]]
    IN  IF Index < Len(t)
        THEN LET rest == tuple_try_foreach_impl(t, f, Index + 1)
             IN  [res |-> IF is_break(rest.res) THEN rest.res ELSE res,
                  calls |-> <<Index>> \o rest.calls]
        ELSE [res |-> res, calls |-> <<Index>>]

\* detail::tuple_try_foreach_impl<T, F, Index, Idx...>(t, f): what it
\* returns and the indexes f was invoked on, in the order of the calls.
tuple_try_foreach_impl(t, f, Index) ==
    IF Index < Len(t)
    THEN LET res == f[t[Index]]
         IN  IF is_break(res)
             THEN [res |-> res, calls |-> <<Index>>]
             ELSE LET rest == tuple_try_foreach_impl(t, f, Index + 1)
                  IN  [rest EXCEPT !.calls = <<Index>> \o @]
    ELSE [res |-> f[t[Index]], calls |-> <<Index>>]

\* tuple_try_foreach(f, t): the chain over the whole index sequence.
tuple_try_foreach(f, t) == tuple_try_foreach_impl(t, f, 1)

\* A tuple of at least one element and a callable; nothing was called yet.
InitTryForeach ==
    /\ cmd = 1
    /\ argv = <<>>
    /\ iter = 1
    /\ stack = <<>>
    /\ result = Running
    /\ events = <<>>
    /\ calls = <<>>
    /\ \E t \in BoundedSeq(Elements, MaxTuple) \ {<<>>} :
           \E f \in [Elements -> ControlFlows] : x = [t |-> t, f |-> f]
    /\ y = nullopt

\* tuple_try_foreach(x.f, x.t) is called once.
TryForeach ==
    /\ ~y.has
    /\ y' = some(tuple_try_foreach(x.f, x.t))
    /\ UNCHANGED <<cmd, argv, iter, stack, result, events, calls, x>>

NextTryForeach == TryForeach

SpecTryForeach == InitTryForeach /\ [][NextTryForeach]_vars

(***************************************************************************)
(* Vocabulary of the properties.                                           *)
(***************************************************************************)
Done == result.status = "returned"
Failed(e) == Done /\ ~result.res.ok /\ result.res.error = e
Succeeded == Done /\ result.res.ok

\* The option an "arg" event is about, and the node of any event.
NodeOf(e) == NodeAt(Trees[cmd], e.path)
ArgOf(e) == NodeOf(e).m_args[e.index]

\* The state right after the step that appended events[k]: the frame that
\* took the step is still on top of the stack.
JustAfter(k) == k = Len(events) /\ stack # <<>> /\ Top.path = events[k].path

HelpToken == "--help"

(***************************************************************************)
(* C1.  Duplicate detection: when the name of a value option whose slot is *)
(* already set occurs again, followed by a value, in the same node, the    *)
(* parse fails with the duplicate error naming the option and the slot     *)
(* keeps its first value.                                                  *)
(***************************************************************************)
C1_DuplicateDetection ==
    \A k \in DOMAIN events :
        LET e == events[k]
        IN  (e.ev = "arg" /\ ArgOf(e).T # "bool" /\ e.old.has /\ e.at < Len(argv))
            => /\ JustAfter(k) =>
                    /\ Top.pc = "ret"
                    /\ Top.ret = Unexpected(DuplicateArg(ArgOf(e).m_name))
                    /\ Top.init[e.index] = e.old
               /\ Done => Failed(DuplicateArg(ArgOf(e).m_name))

(***************************************************************************)
(* C2.  Required enforcement: when a node's default fill starts with the   *)
(* slot of a required option unset (no token named it), the node fails     *)
(* with RequiredOption carrying the name of the first such option.         *)
(***************************************************************************)
UnsetRequired(e) == {i \in DOMAIN e.init : NodeOf(e).m_args[i].required /\ ~e.init[i].has}

C2_RequiredEnforcement ==
    \A k \in DOMAIN events :
        LET e == events[k]
        IN  (e.ev = "finish" /\ e.at = sentinel /\ UnsetRequired(e) # {})
            => LET i == CHOOSE i \in UnsetRequired(e) : \A j \in UnsetRequired(e) : i <= j
               IN  e.frame.ret = Unexpected(RequiredOption(NodeOf(e).m_args[i].m_name))

(***************************************************************************)
(* C3.  Unknown token: in every node, a token at a name position that is   *)
(* neither an option name nor a child name of the node (nor the help       *)
(* token) makes the parse fail with UnknownOption carrying that token.     *)
(***************************************************************************)
C3_UnknownToken ==
    \A k \in DOMAIN events :
        LET e == events[k]
        IN  (e.ev = "unknown" /\ argv[e.at] # HelpToken)
            => /\ result # Crashed
               /\ JustAfter(k) => Top.pc = "ret" /\ Top.ret = Unexpected(UnknownOption(argv[e.at]))
               /\ Done => Failed(UnknownOption(argv[e.at]))

\* The same in the nodes that have child subcommands only.
UnknownTokenWithSubs ==
    \A k \in DOMAIN events :
        LET e == events[k]
        IN  (e.ev = "unknown" /\ NodeOf(e).m_subs # <<>>)
            => /\ result # Crashed
               /\ JustAfter(k) => Top.pc = "ret" /\ Top.ret = Unexpected(UnknownOption(argv[e.at]))
               /\ Done => Failed(UnknownOption(argv[e.at]))

(***************************************************************************)
(* C4.  Help short-circuit: once a node has met the token `--help` at a    *)
(* name position, the parse ends with ShowHelp, whatever follows.          *)
(***************************************************************************)
C4_HelpShortCircuit ==
    \A k \in DOMAIN events :
        LET e == events[k]
        IN  (e.ev \in {"unknown", "arg", "subcmd"} /\ argv[e.at] = HelpToken)
            => /\ JustAfter(k) => Top.pc = "ret" /\ Top.ret = Unexpected(ShowHelp)
               /\ Done => Failed(ShowHelp)

(***************************************************************************)
(* C5.  Flag toggling law: resolving a bool option consumes the name token *)
(* only and never fails; its value is true without a declared default and  *)
(* the negation of a declared bool default; a flag that was not given      *)
(* takes its declared default, false when there is none.                   *)
(***************************************************************************)
HasBoolDefault(arg) == arg.m_default.kind = "value" /\ arg.m_default.T = "bool"

C5_FlagToggling ==
    \A k \in DOMAIN events :
        LET e == events[k]
        IN  /\ (e.ev = "arg" /\ ArgOf(e).T = "bool")
                => /\ e.next = e.at + 1
                   /\ e.res.ok
                   /\ e.res.val = (IF HasBoolDefault(ArgOf(e)) THEN ~ArgOf(e).m_default.val ELSE TRUE)
                   /\ JustAfter(k) => Top.pc = "loop" /\ Top.init[e.index] = some(e.res.val)
            /\ (e.ev = "finish" /\ e.frame.ret.ok)
                => \A i \in DOMAIN e.init :
                       LET arg == NodeOf(e).m_args[i]
                       IN  (arg.T = "bool" /\ ~e.init[i].has /\ arg.m_default.kind # "fn")
                           => e.frame.ret.val.args[i] =
                                 (IF HasBoolDefault(arg) THEN arg.m_default.val ELSE FALSE)

\* `--bar` (default true) was given and is false; `--required` (no default)
\* was not given and is false.
C5_Witness ==
    /\ cmd = 2
    /\ Succeeded
    /\ \E k \in DOMAIN events : events[k].ev = "arg" /\ events[k].index = 3
    /\ ~\E k \in DOMAIN events : events[k].ev = "arg" /\ events[k].index = 4
    /\ result.res.val.args[3] = FALSE
    /\ result.res.val.args[4] = FALSE

(***************************************************************************)
(* C6.  Subcommand selection default: a node with children that finishes   *)
(* successfully without having matched a child name returns the none       *)
(* variant (index 0) in its subcommand field; the selection cell is set    *)
(* whenever the result is built.                                           *)
(***************************************************************************)
ChildMatched(path) == \E j \in DOMAIN events : events[j].ev = "subcmd" /\ events[j].path = path

C6_SelectionDefault ==
    \A k \in DOMAIN events :
        LET e == events[k]
        IN  (e.ev = "finish" /\ NodeOf(e).m_subs # <<>> /\ e.frame.ret.ok)
            => /\ e.frame.subsubcmd.has
               /\ ~ChildMatched(e.path) => e.frame.ret.val.subcmd = [index |-> 0]

\* `sub` was selected by the root and selected no child itself.
C6_Witness ==
    /\ cmd = 3
    /\ Succeeded
    /\ result.res.val.subcmd.index = 1
    /\ result.res.val.subcmd.val.subcmd = [index |-> 0]

(***************************************************************************)
(* C7.  Missing option value: when the name of a value option is the last  *)
(* token, Arg::parse fails with NoValueGivenForOption naming the option,   *)
(* the parser is not invoked, and that error is what the parse returns.    *)
(***************************************************************************)
C7_MissingOptionValue ==
    \A k \in DOMAIN events :
        LET e == events[k]
        IN  (e.ev = "arg" /\ ArgOf(e).T # "bool" /\ e.at = Len(argv))
            => /\ e.res = Unexpected(NoValueGivenForOption(ArgOf(e).m_name))
               /\ e.next = sentinel
               /\ k > 1 => events[k - 1].ev # "parser"
               /\ result # Crashed
               /\ Done => Failed(NoValueGivenForOption(ArgOf(e).m_name))

\* The value of `--x` is missing in the subcommand `sub`.
C7_Witness == cmd = 3 /\ Failed(NoValueGivenForOption("--x"))

(***************************************************************************)
(* C8.  Nullable parser: for an option whose parser returns an optional,   *)
(* an absent result fails the parse with ConverterConvertionError carrying *)
(* the option's name and the raw token; a present result is stored.        *)
(***************************************************************************)
C8_NullableParser ==
    \A k \in DOMAIN events :
        LET e == events[k]
            arg == ArgOf(e)
        IN  (e.ev = "arg" /\ arg.m_parser.kind = "fn" /\ arg.m_parser.ret = "optional" /\ e.at < Len(argv))
            => LET a == argv[e.at + 1]
                   r == InvokeParser(arg.m_parser, a)
               IN  IF r.has
                   THEN JustAfter(k) => Top.pc = "loop" /\ Top.init[e.index] = some(r.val)
                   ELSE /\ JustAfter(k) =>
                             Top.pc = "ret" /\ Top.ret = Unexpected(ConverterConvertionError(arg.m_name, a))
                        /\ result # Crashed
                        /\ Done => Failed(ConverterConvertionError(arg.m_name, a))

\* The parser of `--opt` returned nullopt for "bad".
C8_Witness ==
    /\ cmd = 2
    /\ Failed(ConverterConvertionError("--opt", "bad"))

(***************************************************************************)
(* C9.  Fallible parser pass-through: the error held by the expected a     *)
(* parser returned is, unchanged, the error of the whole parse, through    *)
(* every enclosing node.                                                   *)
(***************************************************************************)
C9_FalliblePassThrough ==
    \A k \in DOMAIN events :
        LET e == events[k]
            arg == ArgOf(e)
        IN  (e.ev = "arg" /\ arg.m_parser.kind = "fn" /\ arg.m_parser.ret = "expected" /\ e.at < Len(argv))
            => LET r == InvokeParser(arg.m_parser, argv[e.at + 1])
               IN  ~r.ok
                   => /\ JustAfter(k) => Top.pc = "ret" /\ Top.ret = Unexpected(r.error)
                      /\ \A j \in (k + 1)..Len(events) :
                             events[j].ev = "return" /\ events[j].res = Unexpected(r.error)
                      /\ result # Crashed
                      /\ Done => Failed(r.error)

\* The parser of `--num`, two subcommands deep, made an InvalidNumber naming
\* "int"; the root returned it.
C9_Witness ==
    /\ cmd = 3
    /\ Failed(InvalidNumber("int", "bad", "invalid_argument"))
    /\ \E k \in DOMAIN events : events[k].ev = "arg" /\ Len(events[k].path) = 2

(***************************************************************************)
(* C10.  Child error propagation: when the parse of a selected child       *)
(* fails, the parent returns the child's error at once: no option of the   *)
(* parent is tried, no other child, and no default fill runs; and the      *)
(* child `sub` with the required `--x`, given ["sub"], fails with          *)
(* RequiredOption("--x").                                                  *)
(***************************************************************************)
ChildErrorPropagates ==
    \A k \in DOMAIN events :
        LET e == events[k]
        IN  (e.ev = "return" /\ ~e.res.ok)
            => /\ (k = Len(events) /\ stack # <<>>) => Top.pc = "ret" /\ Top.ret = e.res
               /\ \A j \in (k + 1)..Len(events) : events[j].ev = "return" /\ events[j].res = e.res
               /\ result # Crashed
               /\ Done => result.res = e.res

C10_ChildErrorPropagation ==
    /\ ChildErrorPropagates
    /\ (cmd = 3 /\ argv = <<"sub">> /\ Done) => Failed(RequiredOption("--x"))

(***************************************************************************)
(* C11.  No return to parent after a subcommand: once a node has consumed  *)
(* a child's name token, every later token is examined by the child or its *)
(* descendants and none sets an option slot of that node; a later token at *)
(* a name position that names an option of that node makes the parse fail  *)
(* with an error.                                                          *)
(***************************************************************************)
IsPrefix(p, q) == Len(p) <= Len(q) /\ SubSeq(q, 1, Len(p)) = p

OptionNames(node) == {node.m_args[i].m_name : i \in DOMAIN node.m_args}

\* After the "subcmd" event k, tokens are examined below the selected child
\* only and the slots of the selecting node are not written by the loop.
NoParentSlotAfterSubCmd ==
    \A k \in DOMAIN events :
        LET e == events[k]
        IN  e.ev = "subcmd"
            => /\ \A j \in (k + 1)..Len(events) :
                      events[j].ev \in {"arg", "unknown", "subcmd"}
                      => /\ events[j].at > e.at
                         /\ IsPrefix(Append(e.path, e.index), events[j].path)
               /\ \A d \in DOMAIN stack :
                      stack[d].path = e.path => stack[d].pc # "loop"

C11_NoReturnToParent ==
    /\ NoParentSlotAfterSubCmd
    /\ \A k \in DOMAIN events :
           LET e == events[k]
           IN  e.ev = "subcmd"
               => \A j \in (k + 1)..Len(events) :
                      (events[j].ev = "unknown" /\ argv[events[j].at] \in OptionNames(NodeOf(e)))
                      => /\ result # Crashed
                         /\ JustAfter(j) => Top.pc = "ret" /\ ~Top.ret.ok
                         /\ Done => ~result.res.ok

(***************************************************************************)
(* C12.  Nested dispatch result: a node that selected a child and returns  *)
(* successfully returns, in its subcommand field, the alternative of that  *)
(* child holding exactly what the child's parse returned (recursively);    *)
(* its options given before the child's name keep their parsed values and  *)
(* its other options take their defaults.                                  *)
(***************************************************************************)
\* The value an unset slot of `arg` is filled with when it has no generator.
DeclaredDefault(arg) == IF arg.m_default.kind = "value" THEN arg.m_default.val ELSE ValueInit(arg.T)

\* The events "arg" of node `path` for option i, before event k.
ArgEvents(path, i, k) ==
    {j \in 1..(k - 1) : events[j].ev = "arg" /\ events[j].path = path /\ events[j].index = i}

C12_NestedDispatch ==
    \A k \in DOMAIN events :
        LET e == events[k]
        IN  (e.ev = "finish" /\ e.frame.ret.ok /\ ChildMatched(e.path))
            => /\ \E s \in 1..(k - 1), r \in 1..(k - 1) :
                      /\ s < r
                      /\ events[s].ev = "subcmd" /\ events[s].path = e.path
                      /\ events[r].ev = "return" /\ events[r].path = Append(e.path, events[s].index)
                      /\ events[r].res.ok
                      /\ e.frame.ret.val.subcmd = [index |-> events[s].index, val |-> events[r].res.val]
               /\ \A i \in DOMAIN e.init :
                      LET given == ArgEvents(e.path, i, k)
                          arg == NodeOf(e).m_args[i]
                      IN  IF given = {}
                          THEN arg.m_default.kind # "fn" => e.frame.ret.val.args[i] = DeclaredDefault(arg)
                          ELSE LET last == CHOOSE j \in given : \A l \in given : l <= j
                               IN  e.frame.ret.val.args[i] = events[last].res.val
               /\ (Len(e.path) = 0 /\ Done) => result.res = e.frame.ret

\* ["--str", "a", "sub", "subsub"]: the root keeps str = "a" and holds sub,
\* which has `--x` at its default and holds subsub with its defaults.
C12_Witness ==
    /\ cmd = 3
    /\ Succeeded
    /\ result.res.val = [subcmd |-> [index |-> 1,
                                     val |-> [subcmd |-> [index |-> 1, val |-> [args |-> <<FALSE, "">>]],
                                              args |-> <<"">>]],
                         args |-> <<"a">>]

(***************************************************************************)
(* C13.  Values and defaults: when every option of a node occurs at most   *)
(* once, a successful parse of the node returns, per option in declaration *)
(* order, the converted value of its token if it was given, else its       *)
(* declared constant default, else the value-initialised T.  With `--flag` *)
(* (bool) and `--count` (int, default 10): [] gives flag = false,          *)
(* count = 10 and ["--flag", "--count", "5"] gives flag = true, count = 5. *)
(***************************************************************************)
C13_ValuesAndDefaults ==
    /\ \A k \in DOMAIN events :
           LET e == events[k]
           IN  (e.ev = "finish" /\ e.frame.ret.ok
                   /\ \A i \in DOMAIN e.init : Cardinality(ArgEvents(e.path, i, k)) <= 1)
               => /\ DOMAIN e.frame.ret.val.args = DOMAIN NodeOf(e).m_args
                  /\ \A i \in DOMAIN e.init :
                         LET given == ArgEvents(e.path, i, k)
                             arg == NodeOf(e).m_args[i]
                         IN  IF given = {}
                             THEN arg.m_default.kind # "fn" => e.frame.ret.val.args[i] = DeclaredDefault(arg)
                             ELSE LET j == CHOOSE j \in given : TRUE
                                  IN  e.frame.ret.val.args[i] =
                                         (IF arg.T = "bool"
                                          THEN (IF HasBoolDefault(arg) THEN ~arg.m_default.val ELSE TRUE)
                                          ELSE ArgParseValue(arg, argv[events[j].at + 1]).val)
    /\ (cmd = 1 /\ argv = <<>> /\ Done) => result = Returned(Ok([args |-> <<FALSE, 10>>]))
    /\ (cmd = 1 /\ argv = <<"--flag", "--count", "5">> /\ Done)
           => result = Returned(Ok([args |-> <<TRUE, 5>>]))

C13_Witness ==
    /\ cmd = 1
    /\ argv = <<"--flag", "--count", "5">>
    /\ Succeeded
    /\ result.res.val.args = <<TRUE, 5>>

(***************************************************************************)
(* C14.  Scenario F: ["--count", "--count", "1"] on a node whose only      *)
(* option is the int `--count` fails with the duplicate error for          *)
(* "--count", raised at the second occurrence of the name.                 *)
(***************************************************************************)
ScenarioF == cmd = 4 /\ argv = <<"--count", "--count", "1">>

C14_ScenarioF == (ScenarioF /\ Done) => Failed(DuplicateArg("--count"))

\* As amended: the token after the name of an int option is consumed as its
\* value even when it is an option name of the node; it is no number, so
\* the parse fails with InvalidNumber for it and examines no later token.
C14_ScenarioF_Amended ==
    /\ \A k \in DOMAIN events :
           LET e == events[k]
           IN  (e.ev = "arg" /\ ArgOf(e).T = "int" /\ ArgOf(e).m_parser.kind = "blank"
                   /\ e.at < Len(argv) /\ argv[e.at + 1] \in OptionNames(NodeOf(e)))
               => /\ e.next = e.at + 2
                  /\ e.res = Unexpected(InvalidNumber(ArgOf(e).m_name, argv[e.at + 1], "invalid_argument"))
                  /\ k = Len(events)
                  /\ result # Crashed
                  /\ Done => Failed(InvalidNumber(ArgOf(e).m_name, argv[e.at + 1], "invalid_argument"))
    /\ ScenarioF
           => /\ result # Crashed
              /\ \A k \in DOMAIN events : events[k].ev = "arg" /\ events[k].at = 1
              /\ Done => Failed(InvalidNumber("--count", "--count", "invalid_argument"))

C14_Witness ==
    /\ ScenarioF
    /\ Failed(InvalidNumber("--count", "--count", "invalid_argument"))
    /\ Len(events) = 1

(***************************************************************************)
(* C15.  First error wins: when the resolution of a token raises an error  *)
(* (unknown token, missing value, conversion failure, child failure), the  *)
(* parse returns exactly that error: no later token is examined, no parser *)
(* or default generator is invoked afterwards and no default fill runs.    *)
(***************************************************************************)
\* The events at which an error is raised, and the error.
IsErrorEvent(k) ==
    LET e == events[k]
    IN  \/ e.ev = "arg" /\ ~e.res.ok
        \/ e.ev = "unknown"
        \/ e.ev = "return" /\ ~e.res.ok
        \/ e.ev = "finish" /\ ~e.frame.ret.ok

ErrorRaised(k) ==
    LET e == events[k]
    IN  CASE e.ev = "unknown" -> UnknownOption(argv[e.at])
          [] e.ev = "finish" -> e.frame.ret.error
          [] OTHER -> e.res.error

\* The cursor right after event k.
CursorAfter(k) == IF events[k].ev = "arg" THEN events[k].next ELSE events[k].at

\* An unmatched token in a node without children may end the process, or
\* raise an error of any content; whatever is raised is what is returned.
Raised(k) ==
    IF events[k].ev = "unknown" /\ NodeOf(events[k]).m_subs = <<>>
    THEN {ErrorRaised(k), [type |-> "indeterminate"]}
    ELSE {ErrorRaised(k)}

C16_Determinism ==
    \A i \in DOMAIN calls :
        result # Running => /\ result = calls[i].result
                            /\ events = calls[i].events

\* The steps at which a call met an unmatched token in a node without
\* children.
UndefinedSteps(evs) ==
    {k \in DOMAIN evs : evs[k].ev = "unknown" /\ NodeAt(Trees[cmd], evs[k].path).m_subs = <<>>}

\* Calls that meet no such token repeat each other step by step.
DeterminismOfDefinedCalls ==
    \A i \in DOMAIN calls :
        (result # Running /\ UndefinedSteps(events) = {})
        => /\ UndefinedSteps(calls[i].events) = {}
           /\ Locals = calls[i]

(***************************************************************************)
(* C17.  Concurrent parsing: two parse calls on one tree, on independent   *)
(* token lists, with their steps interleaved in any way, each return what  *)
(* the same call can return when run alone; a step of one call writes only *)
(* that call's slots, selection cell and cursor.                           *)
(***************************************************************************)
\* What a call owns, without its history.
Owned(c) == <<c.argv, c.iter, c.stack, c.result>>

\* A step of the running call: the call set aside is left as it was.
OtherUntouched == Owned(calls'[1]) = Owned(calls[1])

\* A step of the scheduler: the two calls change places, as they were.
Swapped ==
    /\ Owned(calls'[1]) = <<argv, iter, stack, result>>
    /\ <<argv', iter', stack', result'>> = Owned(calls[1])

FnDefault(arg) == arg.m_default.kind = "fn"

\* The generator of the option returns an empty optional or an expected
\* that holds an error.
GeneratorAbsent(arg) ==
    /\ FnDefault(arg)
    /\ \/ arg.m_default.ret = "optional" /\ ~arg.m_default.out.has
       \/ arg.m_default.ret = "expected" /\ ~arg.m_default.out.ok

\* The value the generator of the option produces when it produces one.
Produced(arg) ==
    IF arg.m_default.ret = "plain" THEN arg.m_default.out ELSE arg.m_default.out.val

\* The options whose generators were invoked by the tail of parse recorded
\* as event k, in the order of invocation.
GeneratorCalls(k) ==
    LET first == CHOOSE j \in 1..k :
                    /\ \A l \in j..(k - 1) : events[l].ev = "default_fn"
                    /\ j = 1 \/ events[j - 1].ev # "default_fn"
    IN  [n \in 1..(k - first) |-> events[first + n - 1].name]

\* The names of the options of `args` at the indexes in S, in declaration order.
NamesAt(args, S) ==
    LET idx == [i \in DOMAIN args |-> i]
        In(i) == i \in S
        sel == SelectSeq(idx, In)
    IN  [n \in DOMAIN sel |-> args[sel[n]].m_name]

\* The option has no declared default and its type no value-initialisation.
EmptyDefault(arg) == arg.m_default.kind = "blank" /\ ~is_default_constructible(arg.T)

\* C18: a generator is invoked only by the default fill at the end of parse
\* and only for an option the command line left unset, in declaration order
\* up to the first generator that yields nothing; a supplied option keeps
\* the parsed value; when every invoked generator yields a value, the unset
\* options receive the plain result, or the content of the present optional
\* or expected result; when one yields an empty optional, parse fails with
\* DefaultGenerationError naming that option.
C18_DefaultGenerator ==
    /\ \A j \in DOMAIN events :
          events[j].ev = "default_fn" =>
              /\ j < Len(events)
              /\ events[j + 1].ev \in {"default_fn", "finish"}
    /\ \A k \in DOMAIN events :
          LET e == events[k]
              node == NodeOf(e)
              args == node.m_args
          IN  (/\ e.ev = "finish"
               /\ ~(HasLeftoverCheck(node) /\ e.at # sentinel)
               /\ \A i \in DOMAIN args : e.init[i].has \/ ~EmptyDefault(args[i])) =>
                  LET unset == {i \in DOMAIN args : ~e.init[i].has}
                      bad == {i \in unset : GeneratorAbsent(args[i])}
                      stop == IF bad = {} THEN Len(args)
                              ELSE CHOOSE i \in bad : \A b \in bad : i <= b
                      called == {i \in unset : FnDefault(args[i]) /\ i <= stop}
                  IN  /\ GeneratorCalls(k) = NamesAt(args, called)
                      /\ bad # {} =>
                            e.frame.ret = Unexpected(DefaultGenerationError(args[stop].m_name))
                      /\ bad = {} =>
                            /\ e.frame.ret.ok
                            /\ \A i \in called : e.frame.ret.val.args[i] = Produced(args[i])
                            /\ \A i \in DOMAIN args \ unset :
                                  FnDefault(args[i]) => e.frame.ret.val.args[i] = e.init[i].val
    /\ (cmd = 5 /\ argv \in {<<>>, <<"--some", "a">>} /\ Done) =>
          Failed(DefaultGenerationError("--none"))

\* The three generators that yield a value fill their unset options, the
\* generator of the supplied option is not invoked.
C18_Witness ==
    /\ cmd = 5
    /\ argv = <<"--none", "a">>
    /\ result = Returned(Ok([args |-> <<"p", "o", "e", "a">>]))
    /\ Len(events) = 5
    /\ GeneratorCalls(5) = <<"--plain", "--some", "--exp">>

(***************************************************************************)
(* C19.  ArgParser: values and defaults.                                   *)
(***************************************************************************)
\* The positions at which parse took the token as the name of configuration i.
NamedAt(i) ==
    {events[k].at : k \in {j \in DOMAIN events :
        events[j].ev = "match" /\ argv[events[j].at] = m_configs[i].m_name}}

\* C19: when ArgParser::parse succeeds, the field of a flag is true when the
\* flag was named and its configured default (false unless set) otherwise;
\* the field of an option is what its converter gives for the token after
\* its name when it was named, and its configured default otherwise.  The
\* token lists of the tests `ok` and `default_values` give (true, 10, Ok)
\* and (true, 1).
C19_ArgParserValues ==
    /\ Succeeded =>
          \A i \in DOMAIN m_configs :
              LET cfg == m_configs[i]
                  field == result.res.val[i]
              IN  IF cfg.kind = "flag"
                  THEN field = IF NamedAt(i) # {} THEN TRUE ELSE cfg.m_default_value
                  ELSE /\ \A at \in NamedAt(i) : field = InvokeConverter(cfg, argv[at + 1]).val
                       /\ (NamedAt(i) = {} /\ cfg.m_default_value.has) =>
                             field = cfg.m_default_value.val
    /\ (cmd = 1 /\ argv = <<"--verbose", "--res", "ok">> /\ Done) =>
          result = Returned(Ok(<<TRUE, 10, "Ok">>))
    /\ (cmd = 3 /\ argv = <<>> /\ Done) => result = Returned(Ok(<<TRUE, 1>>))

\* The token list of the test `ok` has been parsed.
C19_Witness ==
    /\ cmd = 1
    /\ argv = <<"--verbose", "--res", "ok">>
    /\ result = Returned(Ok(<<TRUE, 10, "Ok">>))
    /\ NamedAt(1) = {1}
    /\ NamedAt(2) = {}
    /\ NamedAt(3) = {2}

(***************************************************************************)
(* C20.  ArgParser: a converter that is a null function pointer.           *)
(***************************************************************************)
NullConverterOption(cfg) ==
    cfg.kind = "option" /\ cfg.m_converter.is_pointer /\ cfg.m_converter.fn = "nullptr"

\* C20: when the loop of ArgParser::parse takes a token as the name of an
\* option whose converter is a null function pointer and a token follows
\* it, parse returns NullValueParserErr with that option's name at once and
\* the pointer has not been invoked.  The token list of the test
\* `null_callback` fails so.
C20_NullConverter ==
    /\ \A k \in DOMAIN events : \A i \in DOMAIN m_configs :
          LET e == events[k]
              cfg == m_configs[i]
          IN  (/\ e.ev = "match"
               /\ argv[e.at] = cfg.m_name
               /\ NullConverterOption(cfg)
               /\ e.at < Len(argv)) =>
                  /\ k = Len(events)
                  /\ Failed(NullValueParserErr(cfg.m_name))
                  /\ \A j \in DOMAIN events :
                        ~(events[j].ev = "converter" /\ events[j].name = cfg.m_name)
    /\ (cmd = 2 /\ argv = <<"--num", "0">> /\ Done) => Failed(NullValueParserErr("--num"))

\* The option with the null converter is reached after a flag.
C20_Witness ==
    /\ cmd = 4
    /\ argv = <<"--verbose", "--num", "0">>
    /\ Failed(NullValueParserErr("--num"))
    /\ Len(events) = 2
    /\ events[2].ev = "match"
    /\ events[2].at = 2

(***************************************************************************)
(* C21.  col::optional: swap.                                              *)
(***************************************************************************)
\* The two objects as operation k left them.
AfterOp(k) == IF k = Len(events) THEN [x |-> x, y |-> y] ELSE [x |-> events[k + 1].x, y |-> events[k + 1].y]

\* C21: a swap of two col::optional objects exchanges their states in every
\* combination of has_value(): afterwards x holds what y held (a value or
\* nothing) and y what x held, and a second swap restores both.
C21_OptionalSwap ==
    \A k \in DOMAIN events :
        /\ AfterOp(k).x = events[k].y
        /\ AfterOp(k).y = events[k].x
        /\ k > 1 => (AfterOp(k).x = events[k - 1].x /\ AfterOp(k).y = events[k - 1].y)

\* What the code does: the states are exchanged unless the object swap is
\* called on is the optimized form, holds a value and the other is empty;
\* then both are left as they were.
SwapExceptValueWithEmpty ==
    \A k \in DOMAIN events :
        LET b == events[k]
        IN  IF b.x.Optimized /\ has_value(b.x) /\ ~has_value(b.y)
            THEN AfterOp(k) = [x |-> b.x, y |-> b.y]
            ELSE AfterOp(k) = [x |-> b.y, y |-> b.x]

(***************************************************************************)
(* C22.  The built-in integer conversion of an option's value.             *)
(***************************************************************************)
RECURSIVE Magnitude(_, _)
\* The number the digit string s denotes in base `base`.
Magnitude(s, base) ==
    IF s = <<>> THEN 0 ELSE Magnitude(SubSeq(s, 1, Len(s) - 1), base) * base + DigitValue(s[Len(s)])

\* The token split into the base its prefix selects, its sign and its digits.
Numeral(str) ==
    LET hex == starts_with_0x(str)
        s == IF hex THEN SubSeq(str, 3, Len(str)) ELSE str
        neg == s # <<>> /\ s[1] = "-"
    IN  [base |-> IF hex THEN 16 ELSE 10, neg |-> neg, digits |-> IF neg THEN Tail(s) ELSE s]

\* The whole token is a number of the integral type T.
IsNumberOf(str, ValueT) ==
    LET n == Numeral(str)
        v == IF n.neg THEN -Magnitude(n.digits, n.base) ELSE Magnitude(n.digits, n.base)
    IN  /\ n.digits # <<>>
        /\ \A i \in DOMAIN n.digits : IsDigit(n.digits[i], n.base)
        /\ v >= IntegralMin(ValueT)
        /\ v <= IntegralMax(ValueT)

NumberOf(str) ==
    LET n == Numeral(str)
    IN  IF n.neg THEN -Magnitude(n.digits, n.base) ELSE Magnitude(n.digits, n.base)

\* Event k is Arg::parse of an integer option without a parser, given a value token.
BuiltInConversion(k) ==
    /\ events[k].ev = "arg"
    /\ ArgOf(events[k]).T \in {"int", "int8"}
    /\ ArgOf(events[k]).m_parser.kind = "blank"
    /\ events[k].at < Len(argv)

\* C22: the value token of an integer option without a parser is accepted,
\* with the number it denotes, exactly when the whole token (after a `0x`
\* prefix, which selects base 16) is a number in the range of the type; any
\* other token gives InvalidNumber with the option's name, the raw token and
\* an error code that is not the success code.
C22_WholeToken ==
    \A k \in DOMAIN events :
        BuiltInConversion(k) =>
            LET e == events[k]
                a == argv[e.at + 1]
            IN  IF IsNumberOf(chars(a), ArgOf(e).T)
                THEN e.res = Ok(NumberOf(chars(a)))
                ELSE /\ ~e.res.ok
                     /\ e.res.error.type = "InvalidNumber"
                     /\ e.res.error.name = ArgOf(e).m_name
                     /\ e.res.error.arg = a
                     /\ e.res.error.err # "ok"

\* What the code does: as C22, but a token with characters after a number
\* is reported with the success code that from_chars returned.
WholeTokenOrInvalidNumber ==
    \A k \in DOMAIN events :
        BuiltInConversion(k) =>
            LET e == events[k]
                a == argv[e.at + 1]
            IN  IF IsNumberOf(chars(a), ArgOf(e).T)
                THEN e.res = Ok(NumberOf(chars(a)))
                ELSE /\ ~e.res.ok
                     /\ e.res.error = InvalidNumber(ArgOf(e).m_name, a, e.res.error.err)
                     /\ e.res.error.err = "ok" <=>
                            LET n == Numeral(chars(a))
                            IN  /\ n.digits # <<>>
                                /\ IsDigit(n.digits[1], n.base)
                                /\ \E i \in DOMAIN n.digits : ~IsDigit(n.digits[i], n.base)

(***************************************************************************)
(* C23.  Hexadecimal tokens of the built-in integer conversion.            *)
(***************************************************************************)
\* The token is written with the prefix `0x`, after a minus sign or not.
HexForm(str) ==
    \/ starts_with_0x(str)
    \/ str # <<>> /\ str[1] = "-" /\ starts_with_0x(Tail(str))

\* `0x` followed by hexadecimal digits only, in the range of T.
PlainHex(str, ValueT) ==
    LET d == SubSeq(str, 3, Len(str))
    IN  /\ starts_with_0x(str)
        /\ d # <<>>
        /\ \A i \in DOMAIN d : IsDigit(d[i], 16)
        /\ Magnitude(d, 16) <= IntegralMax(ValueT)

\* C23: integral_from_string<T>, reached from Arg::parse of an integer
\* option, accepts a token written with `0x` only when it is `0x` followed
\* by hexadecimal digits: a negative hexadecimal token, `-0x10` as well as
\* `0x-10`, is an error for a signed T too.
C23_NegativeHex ==
    \A k \in DOMAIN events :
        (BuiltInConversion(k) /\ HexForm(chars(argv[events[k].at + 1]))) =>
            LET e == events[k]
                str == chars(argv[e.at + 1])
            IN  /\ e.res.ok <=> PlainHex(str, ArgOf(e).T)
                /\ integral_from_string(str, ArgOf(e).T).ok <=> PlainHex(str, ArgOf(e).T)

\* What the code does: a minus sign before the prefix is rejected, one
\* after the prefix is accepted for a signed T.
MinusBeforePrefixRejected ==
    \A k \in DOMAIN events :
        (BuiltInConversion(k) /\ HexForm(chars(argv[events[k].at + 1]))) =>
            LET e == events[k]
                str == chars(argv[e.at + 1])
            IN  /\ ~starts_with_0x(str) => ~e.res.ok
                /\ starts_with_0x(str) => (e.res.ok <=> IsNumberOf(str, ArgOf(e).T))

(***************************************************************************)
(* C24, C25.  OptionConfig: required, default and the usage message.       *)
(***************************************************************************)
Bracketed == <<"[", "name", " ", "value", "]">>
Unbracketed == <<"name", " ", "value">>

CannotFill(arg) == GeneratorAbsent(arg) \/ EmptyDefault(arg)

\* C26: the default fill examines the unset slots in declaration order and
\* stops at the first one it cannot fill: parse returns the error of the
\* earliest-declared such option -- InvalidConfiguration(name, EmptyDefault)
\* when the option has no default and its type no value-initialisation, --
\* and the generator of no later-declared option has been invoked; when
\* every unset slot can be filled the fill raises no error.
C26_DefaultFillOrder ==
    \A k \in DOMAIN events :
        LET e == events[k]
            node == NodeOf(e)
            args == node.m_args
        IN  (e.ev = "finish" /\ ~(HasLeftoverCheck(node) /\ e.at # sentinel)) =>
                LET unset == {i \in DOMAIN args : ~e.init[i].has}
                    bad == {i \in unset : CannotFill(args[i])}
                    first == CHOOSE i \in bad : \A b \in bad : i <= b
                    calls_k == GeneratorCalls(k)
                IN  IF bad = {}
                    THEN e.frame.ret.ok
                    ELSE /\ ~e.frame.ret.ok
                         /\ e.frame.ret.error.name = args[first].m_name
                         /\ EmptyDefault(args[first]) =>
                               e.frame.ret.error = InvalidConfiguration(args[first].m_name, "EmptyDefault")
                         /\ \A n \in DOMAIN calls_k : \A i \in DOMAIN args :
                               args[i].m_name = calls_k[n] => i <= first

\* The option without a default is the first that cannot be filled; the
\* generator declared before it has run, the one declared after it has not.
C26_Witness ==
    /\ cmd = 7
    /\ argv = <<"sub", "--none", "a">>
    /\ Failed(InvalidConfiguration("--nodef", "EmptyDefault"))
    /\ \E k \in DOMAIN events :
          /\ events[k].ev = "finish"
          /\ events[k].path = <<1>>
          /\ GeneratorCalls(k) = <<"--gen">>

(***************************************************************************)
(* C27.  Bounded consumption and termination.                              *)
(***************************************************************************)
\* The turns of the loops of all the nodes: each examined one token.
LoopEvents == {k \in DOMAIN events : events[k].ev \in {"arg", "subcmd", "unknown"}}

\* The cursor when the step after event k starts.
CursorNext(k) ==
    LET later == {j \in (k + 1)..Len(events) : events[j].ev \notin {"parser", "default_fn"}}
    IN  IF later = {} THEN iter ELSE events[CHOOSE j \in later : \A l \in later : j <= l].at

\* Depth of the chain of subcommands entered.
ChainDepth == Cardinality({k \in DOMAIN events : events[k].ev = "subcmd"})

ConsumptionBounded ==
    /\ \A k \in LoopEvents :
          LET e == events[k]
          IN  CASE e.ev = "subcmd" -> CursorNext(k) = e.at + 1
                [] e.ev = "arg" ->
                      /\ e.next - e.at \in {1, 2}
                      /\ e.res.ok => /\ e.next = e.at + (IF ArgOf(e).T = "bool" THEN 1 ELSE 2)
                                     /\ CursorNext(k) = e.next
                [] OTHER -> TRUE
    /\ iter <= sentinel
    /\ Cardinality(LoopEvents) <= Len(argv) + ChainDepth

Named(t, a) == {i \in DOMAIN t : t[i].m_name = a}

\* C28: a turn of a node's loop selects a child exactly when some child has
\* the token as its name, and then the first-declared child of that name;
\* it takes the token as an option only when no child has that name, and
\* then as the first-declared option of that name; it finds the token
\* unknown only when neither a child nor an option has that name.
C28_MatchingOrder ==
    \A k \in LoopEvents :
        LET e == events[k]
            node == NodeOf(e)
            a == argv[e.at]
            subs == Named(node.m_subs, a)
            opts == Named(node.m_args, a)
        IN  /\ e.ev = "subcmd" <=> subs # {}
            /\ e.ev = "subcmd" => \A i \in subs : e.index <= i
            /\ e.ev = "arg" <=> (subs = {} /\ opts # {})
            /\ e.ev = "arg" => \A i \in opts : e.index <= i
            /\ e.ev = "unknown" <=> (subs = {} /\ opts = {})

\* `--dup` is taken as the first `--dup` (with the value "a"), `both` as the
\* child and not as the flag, so the flag and the second `--dup` keep false.
C28_Witness ==
    /\ cmd = 8
    /\ argv = <<"--dup", "a", "both">>
    /\ result = Returned(Ok([subcmd |-> [index |-> 1, val |-> [subcmd |-> [index |-> 0], args |-> <<FALSE>>]],
                             args |-> <<FALSE, "a", FALSE>>]))

(***************************************************************************)
(* C29.  A node selects at most one subcommand.                            *)
(***************************************************************************)
\* The returns with a value of the children of the node at path.
ChildSelections(path) ==
    {k \in DOMAIN events : /\ events[k].ev = "return"
                           /\ events[k].res.ok
                           /\ SubSeq(events[k].path, 1, Len(events[k].path) - 1) = path}

\* What the events of a call tell about the selection cells: a node has at
\* most one child that returned a value, it has no turn of its loop after
\* that return, and its tail finds the cell engaged exactly when a child
\* was selected and then leaves it as it is.
SelectedOnce ==
    \A k \in {l \in DOMAIN events : events[l].ev \notin {"parser", "default_fn"}} :
        LET e == events[k]
            sel == ChildSelections(e.path)
        IN  /\ Cardinality(sel) <= 1
            /\ k \in LoopEvents => \A j \in sel : k < j
            /\ e.ev = "finish" =>
                   /\ e.subsubcmd.has <=> sel # {}
                   /\ e.subsubcmd.has => e.frame.subsubcmd = e.subsubcmd
                   /\ \A j \in sel : e.subsubcmd.val.index = events[j].path[Len(events[j].path)]

\* A step leaves an engaged selection cell of a running parse as it is.
CellKept ==
    \A d \in DOMAIN stack :
        (d <= Len(stack') /\ stack'[d].path = stack[d].path /\ stack[d].subsubcmd.has)
            => stack'[d].subsubcmd = stack[d].subsubcmd

\* C29: during one parse of a node its selection cell is written at most
\* once, by the one child that returned a value or by the none tag of the
\* tail; after a child was selected the node takes no further token, so no
\* two children of a node are selected in one input.
C29_OneSubCmdPerNode == []SelectedOnce /\ [][CellKept]_vars

\* `both` is selected by the root and `leaf` by `both`: each cell was
\* written once, by the child's value.
C29_Witness ==
    /\ cmd = 8
    /\ argv = <<"both", "leaf">>
    /\ result = Returned(Ok([subcmd |-> [index |-> 1,
                                         val |-> [subcmd |-> [index |-> 1, val |-> [args |-> <<FALSE>>]],
                                                  args |-> <<FALSE>>]],
                             args |-> <<FALSE, "", FALSE>>]))
    /\ Cardinality(ChildSelections(<<>>)) = 1

(***************************************************************************)
(* C30.  A parse that returns a value has consumed every token.            *)
(***************************************************************************)
\* The leftover check of a tail fired: the tail began before the end of the
\* tokens in a node that has the check.
LeftoverFired(e) == e.ev = "finish" /\ HasLeftoverCheck(NodeOf(e)) /\ e.at # sentinel

\* C30: whenever the parse of a node, root or nested, returns a value, the
\* cursor is at the end of the tokens; so no token remains after a child
\* was selected, and the leftover check of the parent never fires then.
C30_SuccessConsumesAll ==
    /\ Succeeded => iter = sentinel
    /\ \A k \in DOMAIN events :
           LET e == events[k]
           IN  /\ (e.ev = "return" /\ e.res.ok) => e.at = sentinel
               /\ (e.ev = "finish" /\ e.frame.ret.ok) => e.at = sentinel
               /\ (e.ev = "finish" /\ e.subsubcmd.has) => ~LeftoverFired(e)

\* The children `leaf` and `both` returned a value after the last token, and so did the
\* root.
C30_Witness ==
    /\ cmd = 8
    /\ argv = <<"--dup", "a", "both", "leaf">>
    /\ Succeeded
    /\ iter = 5
    /\ \E k \in DOMAIN events : events[k].ev = "return" /\ events[k].res.ok /\ events[k].at = 5
    /\ \E k \in DOMAIN events : /\ events[k].ev = "finish"
                                /\ events[k].path = <<>>
                                /\ events[k].subsubcmd.has

(***************************************************************************)
(* C31.  ControlFlow::to_break() is called on Break results only.          *)
(***************************************************************************)
\* C31: a turn of a loop in which no child and no option matched the token
\* (tuple_try_foreach returned Continue) does not call to_break() on that
\* result, and the process does not die in the parse.
C31_ToBreakOnBreak ==
    /\ result # Crashed
    /\ \A k \in DOMAIN events :
           (events[k].ev = "unknown" /\ is_continue(events[k].res)) => ~events[k].to_break

\* The same in the nodes that have child subcommands, where is_break() is
\* tested before to_break() is called.
ToBreakOnBreakWithSubs ==
    \A k \in DOMAIN events :
        (events[k].ev = "unknown" /\ NodeOf(events[k]).m_subs # <<>>) => ~events[k].to_break

(***************************************************************************)
(* C32.  Every slot is set when the result is built.                       *)
(***************************************************************************)
\* The tails that reached the construction of the result.
Built == {k \in DOMAIN events : events[k].ev = "finish" /\ events[k].frame.ret.ok}

\* C32: when a parse builds its result, every option slot is engaged (set
\* by the loop or by the default fill) and, in a node with children, so is
\* the selection cell: the value built holds what the slots and the cell
\* hold, and no empty optional was dereferenced.
C32_SlotsSetAtBuild ==
    \A k \in Built :
        LET e == events[k]
            node == NodeOf(e)
            built == e.frame.ret.val
        IN  /\ \A i \in DOMAIN e.frame.init :
                   /\ e.frame.init[i].has
                   /\ built.args[i] = e.frame.init[i].val
                   /\ e.init[i].has => e.frame.init[i] = e.init[i]
            /\ node.m_subs # <<>> =>
                   /\ e.frame.subsubcmd.has
                   /\ built.subcmd = e.frame.subsubcmd.val

\* The root builds its result from a slot the loop has set, slots the
\* default fill has set and the selected child.
C32_Witness ==
    /\ cmd = 8
    /\ Succeeded
    /\ \E k \in Built :
           /\ events[k].path = <<>>
           /\ events[k].subsubcmd.has
           /\ \E i \in DOMAIN events[k].init : events[k].init[i].has
           /\ \E i \in DOMAIN events[k].init : ~events[k].init[i].has /\ events[k].frame.init[i].has

(***************************************************************************)
(* C33.  ArgParser builds from engaged slots only.                         *)
(***************************************************************************)
\* The tails of ArgParser::parse that reached make_init_tuple.
Checked == {k \in DOMAIN events : events[k].ev = "tail" /\ check_args_tuple_initialized(events[k].init_args)}

\* C33: whenever ArgParser::parse reaches make_init_tuple, every slot is
\* engaged, so no empty optional is dereferenced and the process does not die.
C33_NoUnsetSlotBuilt ==
    /\ result # Crashed
    /\ \A k \in Checked : \A i \in DOMAIN events[k].init_args : events[k].init_args[i].has

\* The same for every slot but those of the options of an optional type
\* that are not required and still have the default converter's type.
NoUnsetSlotBuiltExceptOptional ==
    \A k \in Checked :
        \A i \in DOMAIN events[k].init_args :
            (~events[k].init_args[i].has) =>
                /\ m_configs[i].kind = "option"
                /\ is_optional_type(m_configs[i].T)
                /\ ~m_configs[i].m_required
                /\ m_configs[i].m_converter.is_pointer

(***************************************************************************)
(* C34.  The result does not depend on the order of the options.           *)
(***************************************************************************)
RECURSIVE Flatten(_)
Flatten(seqs) == IF seqs = <<>> THEN <<>> ELSE Head(seqs) \o Flatten(Tail(seqs))

\* The occurrences of options in the input of a root that selected no
\* child: each the name token with the value token it consumed, if any.
Occurrences ==
    LET ks == {k \in DOMAIN events : events[k].ev = "arg"}
        nth(n) == CHOOSE k \in ks : Cardinality({j \in ks : j <= k}) = n
    IN  [n \in 1..Cardinality(ks) |-> SubSeq(argv, events[nth(n)].at, events[nth(n)].next - 1)]

\* The inputs made of the same occurrences in any order.
Reorderings == {Flatten([n \in DOMAIN Occurrences |-> Occurrences[pi[n]]]) :
                    pi \in Permutations(DOMAIN Occurrences)}

\* No child was selected and no option occurs twice.
EachOptionOnce ==
    /\ \A k \in DOMAIN events : events[k].ev # "subcmd"
    /\ \A k, j \in DOMAIN events :
           (events[k].ev = "arg" /\ events[j].ev = "arg" /\ events[k].index = events[j].index) => k = j

\* C34: when a parse that selects no subcommand and meets every option at
\* most once returns a value, the parse of the same occurrences of options
\* in any other order returns the same value.
C34_OrderIndependence ==
    (Succeeded /\ EachOptionOnce) => \A r \in Reorderings : ParseAlone(r) = {result}

\* `--count 5 --flag` and `--flag --count 5` give one value.
C34_Witness ==
    /\ cmd = 1
    /\ argv = <<"--count", "5", "--flag">>
    /\ Succeeded
    /\ <<"--flag", "--count", "5">> \in Reorderings
    /\ ParseAlone(<<"--flag", "--count", "5">>) = {result}

(***************************************************************************)
(* C35.  The token after a value option is its value, whatever it is.      *)
(***************************************************************************)
\* The occurrences of value options that are followed by a token.
ValueOccurrences ==
    {k \in DOMAIN events : /\ events[k].ev = "arg"
                           /\ ArgOf(events[k]).T # "bool"
                           /\ events[k].at < Len(argv)}

\* C35: the token after the name of a value option is consumed and handed
\* to the option's parser whatever it is; it is never met at a name
\* position, so it selects no child, names no option and is no help
\* request.  With the string option `--str` and the child `sub`, the input
\* `--str sub` sets str to "sub" and selects no subcommand.
C35_ValueTokensNotNames ==
    /\ \A k \in ValueOccurrences :
           LET e == events[k]
               v == argv[e.at + 1]
           IN  /\ e.next = e.at + 2
               /\ e.res = ArgParseValue(ArgOf(e), v)
               /\ ArgOf(e).m_parser.kind = "fn" =>
                      events[k - 1] = [ev |-> "parser", name |-> ArgOf(e).m_name, arg |-> v]
               /\ \A j \in LoopEvents : events[j].at # e.at + 1
    /\ (cmd = 3 /\ argv = <<"--str", "sub">> /\ Done) =>
           result = Returned(Ok([subcmd |-> [index |-> 0], args |-> <<"sub">>]))

\* `--str` has taken the name of the child as its value, and then the help
\* token; no child was entered.
C35_Witness ==
    /\ cmd = 3
    /\ argv = <<"--str", "sub", "--str", "--help">>
    /\ Done
    /\ Cardinality(ValueOccurrences) = 2
    /\ \A k \in DOMAIN events : events[k].ev # "subcmd"

(***************************************************************************)
(* C36.  ArgParser: the second occurrence of an option.                    *)
(***************************************************************************)
\* The turns of the loop of ArgParser::parse at the name of option i, with
\* a value token that its converter converts, when the slot of the option
\* already holds the value of an earlier occurrence.
SecondOccurrences(i) ==
    {k \in DOMAIN events :
        /\ events[k].ev = "match"
        /\ m_configs[i].kind = "option"
        /\ argv[events[k].at] = m_configs[i].m_name
        /\ events[k].at < Len(argv)
        /\ call_converter(m_configs[i], argv[events[k].at + 1]).res.ok
        /\ events[k].before[i].has}

\* C36: the second occurrence `n V2` of an option n whose first occurrence
\* `n V1` was stored, V2 convertible, makes the parse fail with
\* DuplicateSelctionErr of config_name n; the slot keeps V1.
C36_DuplicateOption ==
    \A i \in DOMAIN m_configs :
        \A k \in SecondOccurrences(i) :
            LET e == events[k]
            IN  /\ ~e.m.res.ok
                /\ e.m.res.error.type = "DuplicateSelctionErr"
                /\ e.m.res.error.config_name = m_configs[i].m_name
                /\ e.m.init_args = e.before
                /\ Top.init_args[i] = e.before[i]
                /\ result = Returned(Unexpected(e.m.res.error))

\* `--must 0 --must 1`: the parse fails at the second `--must` and the
\* slot holds 0.
C36_Witness ==
    /\ cmd = 6
    /\ argv = <<"--must", "0", "--must", "1">>
    /\ SecondOccurrences(1) # {}
    /\ Top.init_args[1] = some(0)
    /\ ~result.res.ok
    /\ result.res.error.config_name = "--must"

(***************************************************************************)
(* C37.  ArgParser: when NotEnoughArguments is returned.                   *)
(***************************************************************************)
\* ArgParser::parse has run its tail: the loop ended without an error.
TailRan == events # <<>> /\ events[Len(events)].ev = "tail"

\* The slots as the loop left them.
Supplied == events[Len(events)].before

NotEnough == result = Returned(Unexpected(NotEnoughArguments(<<>>)))

Needed(i) ==
    /\ m_configs[i].kind = "option"
    /\ \/ ~is_optional_type(m_configs[i].T)
       \/ ~m_configs[i].m_converter.is_pointer
       \/ m_configs[i].m_required

Breaking == {i \in DOMAIN x.t : is_break(x.f[x.t[i]])}

\* The index the calls have to end at.
LastCalled == IF Breaking = {} THEN Len(x.t) ELSE CHOOSE i \in Breaking : \A j \in Breaking : i <= j

\* C38: tuple_try_foreach(f, t) invokes f on the elements of t in index
\* order, stops at the first Break and returns it without invoking f on a
\* later element, and returns Continue only if f returned Continue for
\* every element.
C38_ShortCircuit ==
    y.has =>
        /\ y.val.calls = [i \in 1..LastCalled |-> i]
        /\ y.val.res = x.f[x.t[LastCalled]]
        /\ is_continue(y.val.res) <=> Breaking = {}
        /\ Breaking # {} => is_break(y.val.res)

\* f continues on the first element and breaks on the second and on the
\* third: the Break of the second is returned and the third is not called.
C38_Witness ==
    /\ x.t = <<"int", "const char*", "bool">>
    /\ x.f["int"] = Continue
    /\ x.f["const char*"] = Break(-1)
    /\ x.f["bool"] = Break(1)
    /\ y = some([res |-> Break(-1), calls |-> <<1, 2>>])

(***************************************************************************)
(* C39.  The state of a sentinel-optimized col::optional.                  *)
(***************************************************************************)
\* The last operation on x.
LastOp == events[Len(events)]

\* C39: after any sequence of emplace(v), reset() and assignment of
\* nullopt, has_value() is true exactly when the last operation was an
\* emplace, and the value held is then the emplaced v, for every v of T; a
\* default-constructed optional is empty.
C39_OptionalState ==
    IF events = <<>>
    THEN ~has_value(x)
    ELSE /\ has_value(x) <=> LastOp.ev = "emplace"
         /\ LastOp.ev = "emplace" => x.m_value = LastOp.v

\* The same for every v of T but the sentinel value: after emplace of the
\* sentinel value the optional holds it and has_value() is false.
C39_OptionalStateButSentinel ==
    IF events = <<>>
    THEN ~has_value(x)
    ELSE /\ has_value(x) <=> (LastOp.ev = "emplace" /\ LastOp.v # sentinel_value)
         /\ LastOp.ev = "emplace" => x.m_value = LastOp.v

\* emplace, reset, emplace: the optional holds the second value.
C39_Witness ==
    /\ events = <<[ev |-> "emplace", v |-> "p1"], [ev |-> "reset"], [ev |-> "emplace", v |-> "p2"]>>
    /\ has_value(x)
    /\ x.m_value = "p2"

====
